---- MODULE Spec2Model ----
(***************************************************************************)
(* Content scoring engine of streamlit_app.py: the category registry, the  *)
(* sentiment classifier, the timestamped-moment extractor, the component   *)
(* assessors, the three category analyzers and the confidence functions.   *)
(*                                                                         *)
(* Texts are strings; `kw in text` is substring containment, str.lower()   *)
(* maps the ASCII capitals, ' '.join() inserts one blank between items.    *)
(* Scores are fixed-point integers in millionths: 1.0 is 1000000, written  *)
(* P(100); P(n) is n hundredths.  Quotients are truncated to a millionth.  *)
(***************************************************************************)
EXTENDS Integers, Sequences, FiniteSets, TLC

\* ------------------------------------------------------------------------
\* Fixed-point helpers
\* ------------------------------------------------------------------------
P(n) == n * 10000

Min(a, b) == IF a <= b THEN a ELSE b

Max(a, b) == IF a >= b THEN a ELSE b

\* ------------------------------------------------------------------------
\* Text primitives
\* ------------------------------------------------------------------------
\* s[i] of Python (1-based here); "" outside the string
Ch(s, i) == IF i >= 1 /\ i <= Len(s) THEN SubSeq(s, i, i) ELSE ""

\* Python: kw in text
Contains(kw, text) ==
    \E i \in 1..(Len(text) - Len(kw) + 1) : SubSeq(text, i, i + Len(kw) - 1) = kw

UpperCase == <<"A", "B", "C", "D", "E", "F", "G", "H", "I", "J", "K", "L", "M",
               "N", "O", "P", "Q", "R", "S", "T", "U", "V", "W", "X", "Y", "Z">>

LowerCase == <<"a", "b", "c", "d", "e", "f", "g", "h", "i", "j", "k", "l", "m",
               "n", "o", "p", "q", "r", "s", "t", "u", "v", "w", "x", "y", "z">>

LowerChar(c) ==
    IF \E k \in 1..26 : UpperCase[k] = c
    THEN LowerCase[CHOOSE k \in 1..26 : UpperCase[k] = c]
    ELSE c

\* Python: s.lower(), character by character (split in halves to keep the
\* evaluation shallow)
RECURSIVE Lower(_)
Lower(s) ==
    IF Len(s) = 0 THEN ""
    ELSE IF Len(s) = 1 THEN LowerChar(s)
    ELSE LET h == Len(s) \div 2
         IN  Lower(SubSeq(s, 1, h)) \o Lower(SubSeq(s, h + 1, Len(s)))

\* Python: ' '.join(items)
RECURSIVE Join(_)
Join(items) ==
    IF Len(items) = 0 THEN ""
    ELSE IF Len(items) = 1 THEN items[1]
    ELSE items[1] \o " " \o Join(Tail(items))

\* Python: sum(1 for w in words if w in text)
CountIn(words, text) ==
    Cardinality({i \in 1..Len(words) : Contains(words[i], text)})

\* Python: sum(1 for w in words if w in t1 or w in t2 ...)
CountInAny(words, texts) ==
    Cardinality({i \in 1..Len(words) : \E t \in texts : Contains(words[i], t)})

\* Python: [w for w in words if w in text]
RECURSIVE FoundIn(_, _)
FoundIn(words, texts) ==
    IF Len(words) = 0 THEN <<>>
    ELSE (IF \E t \in texts : Contains(Head(words), t) THEN <<Head(words)>> ELSE <<>>)
         \o FoundIn(Tail(words), texts)

\* Python: xs[:n]
Take(xs, n) == SubSeq(xs, 1, Min(n, Len(xs)))

\* ------------------------------------------------------------------------
\* SPECIALIZED_CATEGORIES.  A dict is a sequence of <<key, value>> pairs in
\* insertion order, which is the order .items() iterates in.
\* ------------------------------------------------------------------------
HeartwarmingProfile ==
    [authenticity_signals |->
        [genuine |-> <<"spontaneous", "unexpected", "real reaction", "candid",
                       "unscripted", "natural">>,
         staged_warnings |-> <<"sponsored", "ad", "promotional", "fake", "acting",
                               "scripted", "setup">>],
     content_types |->
        << <<"reunions", <<"reunion", "homecoming", "surprise visit",
                           "long distance", "deployed", "military">> >>,
           <<"acts_of_kindness", <<"helped", "donated", "volunteer", "charity",
                                   "generous", "gave", "sacrifice">> >>,
           <<"life_events", <<"proposal", "wedding", "birth", "adoption",
                              "graduation", "achievement">> >>,
           <<"rescues", <<"rescue", "saved", "found", "lost pet", "missing",
                          "search">> >> >>,
     viewer_emotions |->
        << <<"strong", <<"crying", "sobbing", "bawling", "tears streaming",
                         "ugly crying", "emotional wreck">> >>,
           <<"moderate", <<"tears", "emotional", "touched", "moved", "feels",
                           "heart melting">> >>,
           <<"positive", <<"happy tears", "joy", "beautiful", "sweet", "precious",
                           "wholesome", "pure">> >> >>,
     speech_patterns |->
        << <<"emotional_speech", <<"voice cracking", "choking up", "speechless",
                                   "overwhelmed">> >>,
           <<"positive_words", <<"thank you", "grateful", "blessed", "amazing",
                                 "incredible", "beautiful">> >>,
           <<"family_language", <<"mom", "dad", "family", "love you", "missed you",
                                  "proud of you">> >> >>]

MotivationalProfile ==
    [authenticity_signals |->
        [genuine |-> <<"documented journey", "progress over time", "struggle shown",
                       "setbacks mentioned">>,
         staged_warnings |-> <<"overnight success", "easy money", "secret trick",
                               "one simple hack">>],
     content_types |->
        << <<"transformation", <<"lost weight", "got fit", "changed life",
                                 "transformation", "before after">> >>,
           <<"overcoming_adversity", <<"overcame", "despite", "against odds",
                                       "disability", "poverty", "addiction">> >>,
           <<"achievement", <<"graduated", "promotion", "business success",
                              "competition won", "record broken">> >>,
           <<"perseverance", <<"never gave up", "kept trying", "persistence",
                               "dedication", "years of work">> >> >>,
     viewer_emotions |->
        << <<"inspired", <<"motivated", "inspired", "pumped up", "ready to work",
                           "fired up">> >>,
           <<"impressed", <<"incredible", "amazing", "unbelievable", "respect",
                            "legend", "beast">> >>,
           <<"relatable", <<"needed this", "perfect timing", "exactly what I needed",
                            "motivation">> >> >>,
     speech_patterns |->
        << <<"struggle_language", <<"it was hard", "difficult times",
                                    "wanted to quit", "almost gave up">> >>,
           <<"breakthrough_language", <<"turning point", "everything changed",
                                        "breakthrough moment">> >>,
           <<"advice_language", <<"key is", "secret is", "most important thing",
                                  "advice", "lesson learned">> >> >>]

TraumaticProfile ==
    [authenticity_signals |->
        [genuine |-> <<"breaking news", "live coverage", "witness account",
                       "survivor story", "documentary">>,
         exploitative_warnings |-> <<"clickbait", "dramatic music", "sensationalized",
                                     "views only">>],
     content_types |->
        << <<"natural_disasters", <<"earthquake", "hurricane", "flood", "wildfire",
                                    "tsunami", "tornado">> >>,
           <<"accidents", <<"crash", "accident", "collision", "emergency",
                            "rescue operation">> >>,
           <<"personal_trauma", <<"loss", "death", "injury", "diagnosis", "tragedy",
                                  "victim">> >>,
           <<"social_events", <<"protest", "conflict", "violence", "crisis",
                                "emergency">> >> >>,
     viewer_emotions |->
        << <<"shock", <<"shocked", "can't believe", "unbelievable", "devastating",
                        "horrific">> >>,
           <<"empathy", <<"prayers", "thoughts and prayers", "heart goes out",
                          "so sorry">> >>,
           <<"concern", <<"hope everyone ok", "is everyone safe", "any updates",
                          "what happened">> >> >>,
     speech_patterns |->
        << <<"breaking_news", <<"breaking news", "just in", "developing story",
                                "live coverage">> >>,
           <<"witness_accounts", <<"i saw", "i was there", "happened so fast",
                                   "couldn't believe">> >>,
           <<"official_statements", <<"authorities confirm", "police report",
                                      "official statement">> >> >>]

SPECIALIZED_CATEGORIES ==
    [k \in {"heartwarming_content", "motivational_content", "traumatic_events"} |->
        IF k = "heartwarming_content" THEN HeartwarmingProfile
        ELSE IF k = "motivational_content" THEN MotivationalProfile
        ELSE TraumaticProfile]

\* An exception propagating out of a call
Raise(err, where) == [raised |-> TRUE, error |-> err, at |-> where]

\* mutant: the lookup falls back on the default category, as
\* SPECIALIZED_CATEGORIES.get(category_key, <heartwarming profile>) would
LookupCategory_default(category_key, where) ==
    [raised |-> FALSE,
     profile |-> IF category_key \in DOMAIN SPECIALIZED_CATEGORIES
                 THEN SPECIALIZED_CATEGORIES[category_key]
                 ELSE HeartwarmingProfile]

\* SPECIALIZED_CATEGORIES[category_key]: a dict subscript raises KeyError
\* for a key the dict does not hold
LookupCategory(category_key, where) ==
    IF category_key \in DOMAIN SPECIALIZED_CATEGORIES
    THEN [raised |-> FALSE, profile |-> SPECIALIZED_CATEGORIES[category_key]]
    ELSE Raise("KeyError", where)

\* ------------------------------------------------------------------------
\* analyze_deep_sentiment
\* ------------------------------------------------------------------------
very_positive == <<"amazing", "incredible", "beautiful", "perfect", "love", "best",
                   "crying", "tears", "emotional", "touching", "moving">>

very_negative == <<"terrible", "awful", "worst", "hate", "disgusting", "fake",
                   "staged", "cringe">>

positive_words == <<"good", "nice", "great", "cool", "sweet", "lovely", "happy",
                    "joy", "smile", "fun">>

negative_words == <<"bad", "not good", "boring", "meh", "okay", "whatever",
                    "disappointed">>

\* mutant: the keywords are looked up in the comment as it was written
analyze_deep_sentiment_cased(comment_text) ==
    LET total_positive == CountIn(very_positive, comment_text) * 2
                          + CountIn(positive_words, comment_text)
        total_negative == CountIn(very_negative, comment_text) * 2
                          + CountIn(negative_words, comment_text)
    IN  IF total_positive > total_negative THEN "positive"
        ELSE IF total_negative > total_positive THEN "negative"
        ELSE "neutral"

analyze_deep_sentiment(comment_text) ==
    LET comment_lower == Lower(comment_text)
        total_positive == CountIn(very_positive, comment_lower) * 2
                          + CountIn(positive_words, comment_lower)
        total_negative == CountIn(very_negative, comment_lower) * 2
                          + CountIn(negative_words, comment_lower)
    IN  IF total_positive > total_negative THEN "positive"
        ELSE IF total_negative > total_positive THEN "negative"
        ELSE "neutral"

\* ------------------------------------------------------------------------
\* timestamp_pattern and re.findall
\*   (?:at\s+)?(\d{1,2}):(\d{2}) | (\d{1,2}):(\d{2}) | (\d+:\d+)
\* ------------------------------------------------------------------------
IsDigit(c) == c \in {"0", "1", "2", "3", "4", "5", "6", "7", "8", "9"}

\* \s of a str pattern among the characters of ASCII: blank, \t, \n, \r, \f,
\* and the five control characters U+000B (\v), U+001C, U+001D, U+001E and
\* U+001F, which stand in the second set as themselves.  The white space
\* outside ASCII that \s also matches (U+0085, U+00A0, U+1680, U+2000 to
\* U+200A, U+2028, U+2029, U+202F, U+205F, U+3000) cannot be written in a
\* string of this module, and no text of the model holds it.
IsSpace(c) == c \in {" ", "\t", "\n", "\r", "\f"}
                     \cup {"", "", "", "", ""}

\* length of the run of digits that starts at position i
RECURSIVE DigitRun(_, _)
DigitRun(s, i) == IF IsDigit(Ch(s, i)) THEN 1 + DigitRun(s, i + 1) ELSE 0

\* length of the run of white space that starts at position i
RECURSIVE SpaceRun(_, _)
SpaceRun(s, i) == IF IsSpace(Ch(s, i)) THEN 1 + SpaceRun(s, i + 1) ELSE 0

NoMatch == [found |-> FALSE, next |-> 0, text |-> ""]

\* (\d{1,2}):(\d{2}) at position j; the text is ':'.join of the two groups
CoreAt(s, j) ==
    LET Core(d) ==
            IF /\ d >= 1
               /\ Ch(s, j + d) = ":"
               /\ IsDigit(Ch(s, j + d + 1))
               /\ IsDigit(Ch(s, j + d + 2))
            THEN [found |-> TRUE, next |-> j + d + 3,
                  text |-> SubSeq(s, j, j + d - 1) \o ":"
                           \o SubSeq(s, j + d + 1, j + d + 2)]
            ELSE NoMatch
    IN  Core(Min(DigitRun(s, j), 2))

\* first alternative: optional "at" and white space, then the core
Alt1At(s, i) ==
    LET OrCore(withAt) == IF withAt.found THEN withAt ELSE CoreAt(s, i)
        AfterAt(k) == IF SubSeq(s, i, Min(i + 1, Len(s))) = "at" /\ k >= 1
                      THEN CoreAt(s, i + 2 + k) ELSE NoMatch
    IN  OrCore(AfterAt(SpaceRun(s, i + 2)))

\* second alternative: the core alone
Alt2At(s, i) == CoreAt(s, i)

\* third alternative: (\d+:\d+), one group holding the whole match
Alt3At(s, i) ==
    LET Whole(n, m) ==
            IF n >= 1 /\ Ch(s, i + n) = ":" /\ m >= 1
            THEN [found |-> TRUE, next |-> i + n + 1 + m,
                  text |-> SubSeq(s, i, i + n + m)]
            ELSE NoMatch
        Minutes(n) == Whole(n, DigitRun(s, i + n + 1))
    IN  Minutes(DigitRun(s, i))

MatchAt(s, i) ==
    LET Or3(m2) == IF m2.found THEN m2 ELSE Alt3At(s, i)
        Or2(m1) == IF m1.found THEN m1 ELSE Or3(Alt2At(s, i))
    IN  Or2(Alt1At(s, i))

\* the leftmost of a non-empty set of positions
Leftmost(starts) == CHOOSE p \in starts : \A q \in starts : p <= q

\* re.findall(timestamp_pattern, s), each match already joined with ':':
\* the leftmost match at or after pos, then the scan goes on behind it
RECURSIVE FindAllFrom(_, _)
FindAllFrom(s, pos) ==
    LET Rest(m) == <<m.text>> \o FindAllFrom(s, m.next)
        From(starts) == IF starts = {} THEN <<>>
                        ELSE Rest(MatchAt(s, Leftmost(starts)))
    IN  From({p \in pos..Len(s) : MatchAt(s, p).found})

FindTimestamps(s) == FindAllFrom(s, 1)

\* ------------------------------------------------------------------------
\* calculate_moment_relevance
\* ------------------------------------------------------------------------
context_words == <<"this part", "here", "moment", "scene", "exactly", "perfect",
                   "best part", "favorite">>

RECURSIVE SumOver(_, _)
\* sum of f[i] over a sequence of integers
SumOver(f, n) == IF n = 0 THEN 0 ELSE f[n] + SumOver(f, n - 1)

TierWeight(emotion_level) ==
    IF emotion_level = "strong" THEN P(300)
    ELSE IF emotion_level = "moderate" THEN P(200)
    ELSE P(100)

calculate_moment_relevance(comment_lower, category_data) ==
    LET ct == category_data.content_types
        ve == category_data.viewer_emotions
        typeScore == [i \in 1..Len(ct) |-> CountIn(ct[i][2], comment_lower) * P(200)]
        emoScore  == [i \in 1..Len(ve) |->
                         CountIn(ve[i][2], comment_lower) * TierWeight(ve[i][1])]
    IN  SumOver(typeScore, Len(ct)) + SumOver(emoScore, Len(ve))
        + CountIn(context_words, comment_lower) * P(150)

\* ------------------------------------------------------------------------
\* get_category_indicators
\* ------------------------------------------------------------------------
RECURSIVE MatchedTypes(_, _)
MatchedTypes(ct, comment_lower) ==
    IF Len(ct) = 0 THEN <<>>
    ELSE (IF CountIn(Head(ct)[2], comment_lower) > 0 THEN <<Head(ct)[1]>> ELSE <<>>)
         \o MatchedTypes(Tail(ct), comment_lower)

RECURSIVE MatchedEmotions(_, _)
MatchedEmotions(ve, comment_lower) ==
    IF Len(ve) = 0 THEN <<>>
    ELSE Take(FoundIn(Head(ve)[2], {comment_lower}), 3)
         \o MatchedEmotions(Tail(ve), comment_lower)

get_category_indicators(comment_lower, category_data) ==
    LET signals == category_data.authenticity_signals
    IN  IF "staged_warnings" \notin DOMAIN signals
        THEN Raise("KeyError", "get_category_indicators")
        ELSE [raised |-> FALSE,
              content_types |-> MatchedTypes(category_data.content_types, comment_lower),
              emotions |-> MatchedEmotions(category_data.viewer_emotions, comment_lower),
              authenticity |->
                 IF CountIn(signals.genuine, comment_lower) > 0 THEN "genuine"
                 ELSE IF CountIn(signals.staged_warnings, comment_lower) > 0
                      THEN "questionable"
                      ELSE "unknown"]

\* ------------------------------------------------------------------------
\* extract_timestamped_moments
\* ------------------------------------------------------------------------
\* the moments one comment contributes, in match order
MomentsOf(comment, category_data) ==
    LET Moments(comment_lower, timestamps, relevance_score) ==
            IF Len(timestamps) > 0 /\ relevance_score > 0
            THEN [i \in 1..Len(timestamps) |->
                     [timestamp |-> timestamps[i],
                      comment |-> comment,
                      relevance_score |-> relevance_score,
                      sentiment |-> analyze_deep_sentiment(comment),
                      category_indicators |->
                          get_category_indicators(comment_lower, category_data)]]
            ELSE <<>>
        InComment(comment_lower) ==
            Moments(comment_lower, FindTimestamps(comment_lower),
                    calculate_moment_relevance(comment_lower, category_data))
    IN  InComment(Lower(comment))

RECURSIVE CollectMoments(_, _)
CollectMoments(comments, category_data) ==
    IF Len(comments) = 0 THEN <<>>
    ELSE MomentsOf(Head(comments), category_data)
         \o CollectMoments(Tail(comments), category_data)

\* mutant: an unstable sort, which puts x in front of the elements whose key
\* equals its own
RECURSIVE InsertSorted_unstable(_, _)
InsertSorted_unstable(sorted, x) ==
    IF Len(sorted) = 0 THEN <<x>>
    ELSE IF Head(sorted).relevance_score > x.relevance_score
         THEN <<Head(sorted)>> \o InsertSorted_unstable(Tail(sorted), x)
         ELSE <<x>> \o sorted

\* sorted(..., key=relevance_score, reverse=True): insert x behind every
\* element whose key is >= its own, so equal keys keep their input order
RECURSIVE InsertSorted(_, _)
InsertSorted(sorted, x) ==
    IF Len(sorted) = 0 THEN <<x>>
    ELSE IF Head(sorted).relevance_score >= x.relevance_score
         THEN <<Head(sorted)>> \o InsertSorted(Tail(sorted), x)
         ELSE <<x>> \o sorted

RECURSIVE SortedDesc(_, _)
SortedDesc(acc, rest) ==
    IF Len(rest) = 0 THEN acc
    ELSE SortedDesc(InsertSorted(acc, Head(rest)), Tail(rest))

extract_timestamped_moments(comments, category_key) ==
    LET Sorted(moments) ==
            IF \E i \in 1..Len(moments) : moments[i].category_indicators.raised
            THEN Raise("KeyError", "get_category_indicators")
            ELSE [raised |-> FALSE, moments |-> SortedDesc(<<>>, moments)]
        Extract(looked) ==
            IF looked.raised THEN looked
            ELSE Sorted(CollectMoments(comments, looked.profile))
    IN  Extract(LookupCategory(category_key, "extract_timestamped_moments"))

\* len([m for m in moments if m['relevance_score'] >= 5.0])
HighQuality(moments) ==
    Cardinality({i \in 1..Len(moments) : moments[i].relevance_score >= P(500)})

\* ------------------------------------------------------------------------
\* Assessors of heartwarming content
\* ------------------------------------------------------------------------
\* mutant: the genuine signals count whatever the number of staged warnings
assess_authenticity_independent(all_text, category_data) ==
    LET genuine_count == CountIn(category_data.authenticity_signals.genuine,
                                 all_text.comments)
        staged_count == CountInAny(category_data.authenticity_signals.staged_warnings,
                                   {all_text.comments, all_text.title})
        s1 == P(50) + Min(genuine_count * P(15), P(40))
        s2 == s1 - (IF staged_count > 0 THEN Min(staged_count * P(20), P(30)) ELSE 0)
    IN  Max(Min(s2, P(100)), 0)

assess_authenticity(all_text, category_data) ==
    LET genuine_count == CountIn(category_data.authenticity_signals.genuine,
                                 all_text.comments)
        staged_count == CountInAny(category_data.authenticity_signals.staged_warnings,
                                   {all_text.comments, all_text.title})
        s1 == P(50) + (IF genuine_count > staged_count
                       THEN Min(genuine_count * P(15), P(40)) ELSE 0)
        s2 == s1 - (IF staged_count > 0 THEN Min(staged_count * P(20), P(30)) ELSE 0)
    IN  Max(Min(s2, P(100)), 0)

strong_emotions == <<"crying", "tears", "emotional", "touching", "beautiful",
                     "moving", "powerful">>

\* mutant: the final min(score, 1.0) is missing
assess_emotional_impact_unclamped(all_text, comment_sentiment) ==
    LET s1 == P(30) + (IF comment_sentiment.total > 0
                       THEN (comment_sentiment.positive * P(40)) \div comment_sentiment.total
                            + Min(comment_sentiment.emotional_intensity \div 100, P(30))
                       ELSE 0)
        emotion_matches == CountIn(strong_emotions, all_text.comments)
    IN  s1 + (IF emotion_matches > 5 THEN P(30)
              ELSE IF emotion_matches > 2 THEN P(20) ELSE 0)

\* mutant: the emotional intensity of the comments is left out
assess_emotional_impact_no_intensity(all_text, comment_sentiment) ==
    LET s1 == P(30) + (IF comment_sentiment.total > 0
                       THEN (comment_sentiment.positive * P(40)) \div comment_sentiment.total
                       ELSE 0)
        emotion_matches == CountIn(strong_emotions, all_text.comments)
        s2 == s1 + (IF emotion_matches > 5 THEN P(30)
                    ELSE IF emotion_matches > 2 THEN P(20) ELSE 0)
    IN  Min(s2, P(100))

assess_emotional_impact(all_text, comment_sentiment) ==
    LET s1 == P(30) + (IF comment_sentiment.total > 0
                       THEN (comment_sentiment.positive * P(40)) \div comment_sentiment.total
                            + Min(comment_sentiment.emotional_intensity \div 100, P(30))
                       ELSE 0)
        emotion_matches == CountIn(strong_emotions, all_text.comments)
        s2 == s1 + (IF emotion_matches > 5 THEN P(30)
                    ELSE IF emotion_matches > 2 THEN P(20) ELSE 0)
    IN  Min(s2, P(100))

assess_content_type(all_text, content_types) ==
    LET hits == [i \in 1..Len(content_types) |->
                    CountInAny(content_types[i][2],
                               {all_text.title, all_text.description, all_text.comments})]
        total_matches == SumOver(hits, Len(content_types))
        score == P(20) + (IF total_matches > 5 THEN P(60)
                          ELSE IF total_matches > 2 THEN P(40)
                          ELSE IF total_matches > 0 THEN P(20) ELSE 0)
    IN  Min(score, P(100))

\* mutant: moments of low relevance add nothing
assess_viewer_response_high_only(moments, comment_sentiment) ==
    LET high_quality_moments == HighQuality(moments)
        s1 == P(30) + (IF high_quality_moments >= 3 THEN P(50)
                       ELSE IF high_quality_moments >= 1 THEN P(30) ELSE 0)
        s2 == s1 + (IF comment_sentiment.total > 20 THEN P(20) ELSE 0)
    IN  Min(s2, P(100))

assess_viewer_response(moments, comment_sentiment) ==
    LET high_quality_moments == HighQuality(moments)
        s1 == P(30) + (IF Len(moments) = 0 THEN 0
                       ELSE IF high_quality_moments >= 3 THEN P(50)
                       ELSE IF high_quality_moments >= 1 THEN P(30)
                       ELSE IF Len(moments) >= 3 THEN P(20) ELSE 0)
        s2 == s1 + (IF comment_sentiment.total > 20 THEN P(20) ELSE 0)
    IN  Min(s2, P(100))

assess_visual_warmth(thumbnail_analysis) ==
    LET score == P(50)
                 + (IF thumbnail_analysis.available /\ thumbnail_analysis.color_profile.warm_tones
                    THEN P(30) ELSE 0)
                 + (IF thumbnail_analysis.available /\ thumbnail_analysis.brightness > 140
                    THEN P(20) ELSE 0)
    IN  Min(score, P(100))

\* mutant: no early return for an empty transcript
assess_speech_content_nodefault(transcript_text, speech_patterns) ==
    LET add == [i \in 1..Len(speech_patterns) |->
                   LET matches == CountIn(speech_patterns[i][2], transcript_text)
                   IN  IF matches > 0 THEN Min(matches * P(10), P(20)) ELSE 0]
    IN  Min(P(40) + SumOver(add, Len(speech_patterns)), P(100))

assess_speech_content(transcript_text, speech_patterns) ==
    IF transcript_text = "" THEN P(50)
    ELSE LET add == [i \in 1..Len(speech_patterns) |->
                        LET matches == CountIn(speech_patterns[i][2], transcript_text)
                        IN  IF matches > 0 THEN Min(matches * P(10), P(20)) ELSE 0]
         IN  Min(P(40) + SumOver(add, Len(speech_patterns)), P(100))

\* ------------------------------------------------------------------------
\* Assessors of motivational content.  assess_inspirational_impact,
\* assess_actionable_content, assess_transformation_evidence and
\* assess_motivation_response are defined twice in the module; the later
\* definitions ("Missing assessment functions") are the ones in force when
\* main() runs and are the ones modelled.
\* ------------------------------------------------------------------------
genuine_markers == <<"years of work", "finally", "after struggling", "breakthrough",
                     "earned it">>

fake_markers == <<"overnight success", "easy money", "secret", "hack", "simple trick">>

\* mutant: genuine markers may add up to 0.6
assess_achievement_authenticity_uncapped(all_text) ==
    LET genuine_count == CountInAny(genuine_markers,
                                    {all_text.comments, all_text.description})
        fake_count == CountInAny(fake_markers, {all_text.title, all_text.description})
        s1 == P(40) + (IF genuine_count > 0 THEN Min(genuine_count * P(20), P(60)) ELSE 0)
        s2 == s1 - (IF fake_count > 0 THEN Min(fake_count * P(30), P(60)) ELSE 0)
    IN  Max(Min(s2, P(100)), 0)

assess_achievement_authenticity(all_text) ==
    LET genuine_count == CountInAny(genuine_markers,
                                    {all_text.comments, all_text.description})
        fake_count == CountInAny(fake_markers, {all_text.title, all_text.description})
        s1 == P(40) + (IF genuine_count > 0 THEN Min(genuine_count * P(20), P(40)) ELSE 0)
        s2 == s1 - (IF fake_count > 0 THEN Min(fake_count * P(30), P(60)) ELSE 0)
    IN  Max(Min(s2, P(100)), 0)

struggle_words == <<"difficult", "hard", "struggle", "challenge", "obstacle",
                    "setback", "failure">>

success_words == <<"overcame", "achieved", "breakthrough", "success", "accomplished",
                   "made it">>

assess_struggle_narrative(all_text, transcript_data) ==
    LET text_content == all_text.comments \o " " \o all_text.description
                        \o (IF transcript_data.available
                            THEN " " \o all_text.transcript ELSE "")
        struggle_mentions == CountIn(struggle_words, text_content)
        success_mentions == CountIn(success_words, text_content)
        score == P(30) + (IF struggle_mentions > 0 /\ success_mentions > 0 THEN P(50)
                          ELSE IF success_mentions > 0 THEN P(20) ELSE 0)
    IN  Min(score, P(100))

motivational_words == <<"motivated", "inspired", "pumped", "ready">>

assess_inspirational_impact(all_text, comment_sentiment) ==
    LET s1 == P(30) + (IF comment_sentiment.total > 0
                       THEN (comment_sentiment.positive * P(40)) \div comment_sentiment.total
                       ELSE 0)
        matches == CountIn(motivational_words, all_text.comments)
    IN  Min(s1 + Min(matches * P(10), P(30)), P(100))

actionable_phrases == <<"how to", "step", "key is", "important", "advice">>

assess_actionable_content(transcript_text) ==
    IF transcript_text = "" THEN P(50)
    ELSE Min(P(40) + Min(CountIn(actionable_phrases, transcript_text) * P(10), P(40)),
             P(100))

evidence_words == <<"transformation", "changed", "different", "journey", "progress">>

assess_transformation_evidence(all_text) ==
    LET matches == CountInAny(evidence_words, {all_text.title, all_text.description})
    IN  Min(P(40) + Min(matches * P(20), P(40)), P(100))

assess_motivation_response(moments) ==
    LET motivated_moments ==
            {i \in 1..Len(moments) :
                \/ Contains("motivated", Lower(moments[i].comment))
                \/ Contains("inspired", Lower(moments[i].comment))}
    IN  Min(P(30) + (IF Cardinality(motivated_moments) > 0 THEN P(40) ELSE 0), P(100))

\* ------------------------------------------------------------------------
\* Assessors of traumatic content
\* ------------------------------------------------------------------------
assess_event_severity(all_text, category_data) ==
    LET ct == category_data.content_types
        add == [i \in 1..Len(ct) |->
                   CountInAny(ct[i][2], {all_text.title, all_text.description}) * P(20)]
    IN  Min(P(20) + SumOver(add, Len(ct)), P(100))

responsible_indicators == <<"awareness", "education", "prevention", "help", "support",
                            "resources">>

exploitative_indicators == <<"shocking", "insane", "crazy", "unbelievable", "viral",
                             "dramatic">>

\* mutant: exploitative indicators in the majority cost 0.05
assess_responsible_presentation_mild(all_text) ==
    LET responsible_count == CountIn(responsible_indicators, all_text.description)
        exploitative_count == CountIn(exploitative_indicators, all_text.title)
        score == P(50) + (IF responsible_count > exploitative_count THEN P(30)
                          ELSE IF exploitative_count > responsible_count THEN -P(5)
                          ELSE 0)
    IN  Max(Min(score, P(100)), 0)

assess_responsible_presentation(all_text) ==
    LET responsible_count == CountIn(responsible_indicators, all_text.description)
        exploitative_count == CountIn(exploitative_indicators, all_text.title)
        score == P(50) + (IF responsible_count > exploitative_count THEN P(30)
                          ELSE IF exploitative_count > responsible_count THEN -P(40)
                          ELSE 0)
    IN  Max(Min(score, P(100)), 0)

assess_trauma_authenticity(all_text, category_data) ==
    LET genuine_count == CountInAny(category_data.authenticity_signals.genuine,
                                    {all_text.title, all_text.description})
        exploitative_count ==
            CountIn(category_data.authenticity_signals.exploitative_warnings, all_text.title)
        s1 == P(50) + (IF genuine_count > 0 THEN Min(genuine_count * P(20), P(40)) ELSE 0)
        s2 == s1 - (IF exploitative_count > 0
                    THEN Min(exploitative_count * P(30), P(50)) ELSE 0)
    IN  Max(Min(s2, P(100)), 0)

educational_indicators == <<"learn", "understand", "awareness", "prevention",
                            "important to know", "education">>

assess_educational_value(all_text, transcript_data) ==
    LET text_to_check == all_text.description
                         \o (IF transcript_data.available
                             THEN " " \o all_text.transcript ELSE "")
        matches == CountIn(educational_indicators, text_to_check)
    IN  Min(P(30) + (IF matches > 0 THEN Min(matches * P(20), P(50)) ELSE 0), P(100))

serious_responses == <<"prayers", "thoughts", "hope", "sad", "tragic", "terrible">>

assess_trauma_impact(moments, comment_sentiment) ==
    LET comment_text == Lower(Join([i \in 1..Len(moments) |-> moments[i].comment]))
        serious_count == CountIn(serious_responses, comment_text)
    IN  Min(P(40) + (IF comment_sentiment.total > 0
                     THEN (IF serious_count > 2 THEN P(40)
                           ELSE IF serious_count > 0 THEN P(20) ELSE 0)
                     ELSE 0),
            P(100))

credible_indicators == <<"news", "media", "journalist", "reporter", "official">>

assess_source_credibility(channel_info) ==
    LET channel_desc == Lower(channel_info.description)
    IN  Min(P(50)
            + (IF CountIn(credible_indicators, channel_desc) > 0 THEN P(30) ELSE 0)
            + (IF channel_info.subscriber_count > 100000 THEN P(20) ELSE 0),
            P(100))

\* ------------------------------------------------------------------------
\* Confidence
\* ------------------------------------------------------------------------
\* components['authenticity'] > 0.6 in binary64.  Every way assess_authenticity
\* arrives at six tenths (0.5 + 0.3 - 0.2 and 0.5 + 0.4 - 0.3) evaluates to
\* 0.6000000000000001, which is greater than the literal 0.6; all its other
\* values compare as their decimal values do.
AuthenticityAbove60(authenticity) == authenticity > P(60) \/ authenticity = P(60)

calculate_heartwarming_confidence(data, components, moments) ==
    Min(P(30)
        + (IF Len(data.comments) > 20 THEN P(25) ELSE 0)
        + (IF data.transcript.available THEN P(20) ELSE 0)
        + (IF Len(moments) > 0 THEN P(15) ELSE 0)
        + (IF AuthenticityAbove60(components.authenticity) THEN P(10) ELSE 0),
        P(100))

calculate_motivational_confidence(data, components, moments) ==
    Min(P(20)
        + (IF Len(data.comments) > 30 THEN P(30) ELSE 0)
        + (IF data.transcript.available THEN P(25) ELSE 0)
        + (IF components.achievement_authenticity > P(50) THEN P(15) ELSE 0)
        + (IF Len(moments) > 0 THEN P(10) ELSE 0),
        P(100))

\* mutant: the last increment is 0.5 instead of 0.05
calculate_trauma_confidence_typo(data, components, moments) ==
    Min(P(40)
        + (IF data.channel_info.subscriber_count > 50000 THEN P(20) ELSE 0)
        + (IF components.source_credibility > P(70) THEN P(20) ELSE 0)
        + (IF Len(data.comments) > 10 THEN P(15) ELSE 0)
        + (IF components.responsible_handling > P(60) THEN P(50) ELSE 0),
        P(100))

calculate_trauma_confidence(data, components, moments) ==
    Min(P(40)
        + (IF data.channel_info.subscriber_count > 50000 THEN P(20) ELSE 0)
        + (IF components.source_credibility > P(70) THEN P(20) ELSE 0)
        + (IF Len(data.comments) > 10 THEN P(15) ELSE 0)
        + (IF components.responsible_handling > P(60) THEN P(5) ELSE 0),
        P(100))

\* ------------------------------------------------------------------------
\* Indicator extraction: at most 2 keywords per content type, 6 in all
\* ------------------------------------------------------------------------
RECURSIVE IndicatorsFrom(_, _)
IndicatorsFrom(ct, texts) ==
    IF Len(ct) = 0 THEN <<>>
    ELSE Take(FoundIn(Head(ct)[2], texts), 2) \o IndicatorsFrom(Tail(ct), texts)

extract_heartwarming_indicators(all_text, category_data) ==
    Take(IndicatorsFrom(category_data.content_types,
                        {all_text.comments, all_text.title}), 6)

extract_motivational_indicators(all_text, category_data) ==
    Take(IndicatorsFrom(category_data.content_types,
                        {all_text.comments, all_text.title}), 6)

extract_trauma_indicators(all_text, category_data) ==
    Take(IndicatorsFrom(category_data.content_types,
                        {all_text.title, all_text.description}), 6)

\* ------------------------------------------------------------------------
\* The three analyzers.  Weights are in hundredths.
\* ------------------------------------------------------------------------
heartwarming_weights ==
    [authenticity |-> 25, emotional_impact |-> 25, content_type_match |-> 20,
     viewer_response |-> 15, visual_warmth |-> 8, speech_analysis |-> 7]

\* mutant: transformation_evidence weighs 0.10 instead of 0.12
motivational_weights_typo ==
    [achievement_authenticity |-> 25, struggle_to_success |-> 20,
     inspirational_impact |-> 20, actionable_value |-> 15,
     transformation_evidence |-> 10, viewer_motivation |-> 8]

motivational_weights ==
    [achievement_authenticity |-> 25, struggle_to_success |-> 20,
     inspirational_impact |-> 20, actionable_value |-> 15,
     transformation_evidence |-> 12, viewer_motivation |-> 8]

traumatic_weights ==
    [event_severity |-> 25, responsible_handling |-> 25, authenticity |-> 20,
     educational_value |-> 15, viewer_impact |-> 10, source_credibility |-> 5]

\* sum(w[key] for key in keys), for any record of integers w
RECURSIVE SumKeys(_, _)
SumKeys(w, keys) ==
    IF keys = {} THEN 0
    ELSE LET k == CHOOSE x \in keys : TRUE
         IN  w[k] + SumKeys(w, keys \ {k})

\* sum(components[key] * weights[key] for key in weights) * scale,
\* weights in hundredths, result in millionths
component_contribution(components, weights, scale) ==
    (SumKeys([k \in DOMAIN weights |-> components[k] * weights[k]], DOMAIN weights)
     * scale) \div 100

\* mutant: the score is returned without min(final_score, 10.0)
ClampScore_unclamped(final_score) == final_score

\* min(final_score, 10.0)
ClampScore(final_score) == Min(final_score, P(1000))

\* the three-way label of the gating component
Label(g, good, bad) ==
    IF g > P(70) THEN good ELSE IF g > P(40) THEN "questionable" ELSE bad

\* mutant: one moment of high relevance is enough for the bonus
analyze_heartwarming_content_one(all_text, data, moments, category_data) ==
    LET weights == heartwarming_weights
        Scored(components) ==
            IF ~(DOMAIN weights \subseteq DOMAIN components)
            THEN Raise("KeyError", "analyze_heartwarming_content")
            ELSE
                LET s1 == P(300) + component_contribution(components, weights, 7)
                    s2 == IF components.authenticity < P(40) THEN (s1 * 7) \div 10 ELSE s1
                    s3 == IF HighQuality(moments) >= 1 THEN s2 + P(80) ELSE s2
                IN  [raised |-> FALSE,
                     score |-> ClampScore(s3),
                     components |-> components,
                     confidence |-> calculate_heartwarming_confidence(data, components, moments),
                     authenticity |-> Label(components.authenticity, "authentic", "likely_staged"),
                     indicators |-> extract_heartwarming_indicators(all_text, category_data)]
    IN  Scored(
        [authenticity |-> assess_authenticity(all_text, category_data),
         emotional_impact |-> assess_emotional_impact(all_text, data.comment_sentiment),
         content_type_match |-> assess_content_type(all_text, category_data.content_types),
         viewer_response |-> assess_viewer_response(moments, data.comment_sentiment),
         visual_warmth |-> assess_visual_warmth(data.thumbnail_analysis),
         speech_analysis |-> assess_speech_content(all_text.transcript,
                                                   category_data.speech_patterns)])

\* mutant: the moment bonus is added before the authenticity penalty
analyze_heartwarming_content_bonus_first(all_text, data, moments, category_data) ==
    LET weights == heartwarming_weights
        Scored(components) ==
            IF ~(DOMAIN weights \subseteq DOMAIN components)
            THEN Raise("KeyError", "analyze_heartwarming_content")
            ELSE
                LET s1 == P(300) + component_contribution(components, weights, 7)
                    s2 == IF HighQuality(moments) >= 2 THEN s1 + P(80) ELSE s1
                    s3 == IF components.authenticity < P(40) THEN (s2 * 7) \div 10 ELSE s2
                IN  [raised |-> FALSE,
                     score |-> ClampScore(s3),
                     components |-> components,
                     confidence |-> calculate_heartwarming_confidence(data, components, moments),
                     authenticity |-> Label(components.authenticity, "authentic", "likely_staged"),
                     indicators |-> extract_heartwarming_indicators(all_text, category_data)]
    IN  Scored(
        [authenticity |-> assess_authenticity(all_text, category_data),
         emotional_impact |-> assess_emotional_impact(all_text, data.comment_sentiment),
         content_type_match |-> assess_content_type(all_text, category_data.content_types),
         viewer_response |-> assess_viewer_response(moments, data.comment_sentiment),
         visual_warmth |-> assess_visual_warmth(data.thumbnail_analysis),
         speech_analysis |-> assess_speech_content(all_text.transcript,
                                                   category_data.speech_patterns)])

analyze_heartwarming_content(all_text, data, moments, category_data) ==
    LET weights == heartwarming_weights
        Scored(components) ==
            IF ~(DOMAIN weights \subseteq DOMAIN components)
            THEN Raise("KeyError", "analyze_heartwarming_content")
            ELSE
                LET s1 == P(300) + component_contribution(components, weights, 7)
                    s2 == IF components.authenticity < P(40) THEN (s1 * 7) \div 10 ELSE s1
                    s3 == IF HighQuality(moments) >= 2 THEN s2 + P(80) ELSE s2
                IN  [raised |-> FALSE,
                     score |-> ClampScore(s3),
                     components |-> components,
                     confidence |-> calculate_heartwarming_confidence(data, components, moments),
                     authenticity |-> Label(components.authenticity, "authentic", "likely_staged"),
                     indicators |-> extract_heartwarming_indicators(all_text, category_data)]
    IN  Scored(
        [authenticity |-> assess_authenticity(all_text, category_data),
         emotional_impact |-> assess_emotional_impact(all_text, data.comment_sentiment),
         content_type_match |-> assess_content_type(all_text, category_data.content_types),
         viewer_response |-> assess_viewer_response(moments, data.comment_sentiment),
         visual_warmth |-> assess_visual_warmth(data.thumbnail_analysis),
         speech_analysis |-> assess_speech_content(all_text.transcript,
                                                   category_data.speech_patterns)])

analyze_motivational_content(all_text, data, moments, category_data) ==
    LET weights == motivational_weights
        Scored(components) ==
            IF ~(DOMAIN weights \subseteq DOMAIN components)
            THEN Raise("KeyError", "analyze_motivational_content")
            ELSE
                LET s1 == P(200) + component_contribution(components, weights, 8)
                    s2 == IF /\ components.achievement_authenticity > P(80)
                             /\ components.struggle_to_success > P(70)
                          THEN s1 + P(100) ELSE s1
                    s3 == IF components.achievement_authenticity < P(30)
                          THEN (s2 * 6) \div 10 ELSE s2
                IN  [raised |-> FALSE,
                     score |-> ClampScore(s3),
                     components |-> components,
                     confidence |-> calculate_motivational_confidence(data, components, moments),
                     authenticity |-> Label(components.achievement_authenticity,
                                            "authentic", "likely_fake"),
                     indicators |-> extract_motivational_indicators(all_text, category_data)]
    IN  Scored(
        [achievement_authenticity |-> assess_achievement_authenticity(all_text),
         struggle_to_success |-> assess_struggle_narrative(all_text, data.transcript),
         inspirational_impact |-> assess_inspirational_impact(all_text,
                                                             data.comment_sentiment),
         actionable_value |-> assess_actionable_content(all_text.transcript),
         transformation_evidence |-> assess_transformation_evidence(all_text),
         viewer_motivation |-> assess_motivation_response(moments)])

\* mutant: the penalty is also applied at the threshold itself
analyze_traumatic_content_le(all_text, data, moments, category_data) ==
    LET weights == traumatic_weights
        Scored(components) ==
            IF ~(DOMAIN weights \subseteq DOMAIN components)
            THEN Raise("KeyError", "analyze_traumatic_content")
            ELSE
                LET s1 == P(100) + component_contribution(components, weights, 9)
                    s2 == IF components.responsible_handling <= P(50) THEN (s1 * 5) \div 10 ELSE s1
                    s3 == IF /\ components.educational_value > P(70)
                             /\ components.responsible_handling > P(70)
                          THEN s2 + P(50) ELSE s2
                IN  [raised |-> FALSE,
                     score |-> ClampScore(s3),
                     components |-> components,
                     confidence |-> calculate_trauma_confidence(data, components, moments),
                     handling_assessment |-> Label(components.responsible_handling,
                                                   "responsible", "exploitative"),
                     indicators |-> extract_trauma_indicators(all_text, category_data)]
    IN  Scored(
        [event_severity |-> assess_event_severity(all_text, category_data),
         responsible_handling |-> assess_responsible_presentation(all_text),
         authenticity |-> assess_trauma_authenticity(all_text, category_data),
         educational_value |-> assess_educational_value(all_text, data.transcript),
         viewer_impact |-> assess_trauma_impact(moments, data.comment_sentiment),
         source_credibility |-> assess_source_credibility(data.channel_info)])

analyze_traumatic_content(all_text, data, moments, category_data) ==
    LET weights == traumatic_weights
        Scored(components) ==
            IF ~(DOMAIN weights \subseteq DOMAIN components)
            THEN Raise("KeyError", "analyze_traumatic_content")
            ELSE
                LET s1 == P(100) + component_contribution(components, weights, 9)
                    s2 == IF components.responsible_handling < P(50) THEN (s1 * 5) \div 10 ELSE s1
                    s3 == IF /\ components.educational_value > P(70)
                             /\ components.responsible_handling > P(70)
                          THEN s2 + P(50) ELSE s2
                IN  [raised |-> FALSE,
                     score |-> ClampScore(s3),
                     components |-> components,
                     confidence |-> calculate_trauma_confidence(data, components, moments),
                     handling_assessment |-> Label(components.responsible_handling,
                                                   "responsible", "exploitative"),
                     indicators |-> extract_trauma_indicators(all_text, category_data)]
    IN  Scored(
        [event_severity |-> assess_event_severity(all_text, category_data),
         responsible_handling |-> assess_responsible_presentation(all_text),
         authenticity |-> assess_trauma_authenticity(all_text, category_data),
         educational_value |-> assess_educational_value(all_text, data.transcript),
         viewer_impact |-> assess_trauma_impact(moments, data.comment_sentiment),
         source_credibility |-> assess_source_credibility(data.channel_info)])

\* ------------------------------------------------------------------------
\* comprehensive_category_analysis
\* ------------------------------------------------------------------------
\* the all_text dictionary
BuildAllText(data) ==
    [title |-> Lower(data.title),
     description |-> Lower(data.description),
     comments |-> Lower(Join(data.comments)),
     transcript |-> IF data.transcript.available THEN Lower(data.transcript.text) ELSE "",
     channel_desc |-> Lower(data.channel_info.description)]

\* the branch on category_key, with its else branch
DispatchAnalysis(all_text, data, moments, category_data, category_key) ==
    IF category_key = "heartwarming_content"
    THEN analyze_heartwarming_content(all_text, data, moments, category_data)
    ELSE IF category_key = "motivational_content"
    THEN analyze_motivational_content(all_text, data, moments, category_data)
    ELSE IF category_key = "traumatic_events"
    THEN analyze_traumatic_content(all_text, data, moments, category_data)
    ELSE [raised |-> FALSE, score |-> P(500), components |-> <<>>, confidence |-> P(50)]

\* analysis.get(key, default)
DictGet(analysis, key, default) ==
    IF key \in DOMAIN analysis THEN analysis[key] ELSE default

comprehensive_category_analysis(data, category_key) ==
    LET Result(moments, analysis) ==
            IF analysis.raised THEN analysis
            ELSE [raised |-> FALSE,
                  final_score |-> analysis.score,
                  component_scores |-> analysis.components,
                  confidence |-> analysis.confidence,
                  timestamped_moments |-> moments,
                  authenticity_assessment |-> DictGet(analysis, "authenticity", "unknown"),
                  key_indicators |-> DictGet(analysis, "indicators", <<>>),
                  data_sources |->
                      [comments |-> Len(data.comments),
                       transcript |-> data.transcript.available,
                       engagement_data |-> data.viewCount > 0,
                       thumbnail |-> data.thumbnail_analysis.available]]
        Analysed(category_data, extracted) ==
            IF extracted.raised THEN extracted
            ELSE Result(extracted.moments,
                        DispatchAnalysis(BuildAllText(data), data, extracted.moments,
                                         category_data, category_key))
        Looked(looked) ==
            IF looked.raised THEN looked
            ELSE Analysed(looked.profile,
                          extract_timestamped_moments(data.comments, category_key))
    IN  Looked(LookupCategory(category_key, "comprehensive_category_analysis"))

\* ------------------------------------------------------------------------
\* fetch_enhanced_comments: the body of the loop over comment items, and
\* fetch_comprehensive_data: the record handed to the engine
\* ------------------------------------------------------------------------
EmptyComments ==
    [comments |-> <<>>,
     sentiment_analysis |-> [positive |-> 0, negative |-> 0, neutral |-> 0, total |-> 0,
                             emotional_intensity |-> 0]]

\* mutant: a text that is already in the list is taken again
IngestItem_again(acc, item) ==
    LET sentiment == analyze_deep_sentiment(item.text)
        sa == acc.sentiment_analysis
    IN  [comments |-> Append(acc.comments, item.text),
         sentiment_analysis |->
            [positive |-> sa.positive + (IF sentiment = "positive" THEN 1 ELSE 0),
             negative |-> sa.negative + (IF sentiment = "negative" THEN 1 ELSE 0),
             neutral  |-> sa.neutral + (IF sentiment = "neutral" THEN 1 ELSE 0),
             total    |-> sa.total + 1,
             emotional_intensity |->
                 sa.emotional_intensity
                 + (IF item.like_count > 10 THEN item.like_count * 100000 ELSE 0)]]

\* one item of the response; emotional_intensity is in millionths, so
\* like_count * 0.1 is like_count * 100000
IngestItem(acc, item) ==
    IF \E i \in 1..Len(acc.comments) : acc.comments[i] = item.text
    THEN acc
    ELSE LET sentiment == analyze_deep_sentiment(item.text)
             sa == acc.sentiment_analysis
         IN  [comments |-> Append(acc.comments, item.text),
              sentiment_analysis |->
                 [positive |-> sa.positive + (IF sentiment = "positive" THEN 1 ELSE 0),
                  negative |-> sa.negative + (IF sentiment = "negative" THEN 1 ELSE 0),
                  neutral  |-> sa.neutral + (IF sentiment = "neutral" THEN 1 ELSE 0),
                  total    |-> sa.total + 1,
                  emotional_intensity |->
                      sa.emotional_intensity
                      + (IF item.like_count > 10 THEN item.like_count * 100000 ELSE 0)]]

RECURSIVE IngestAll(_, _)
IngestAll(acc, items) ==
    IF Len(items) = 0 THEN acc
    ELSE IngestAll(IngestItem(acc, Head(items)), Tail(items))

fetch_enhanced_comments(items) == IngestAll(EmptyComments, items)

fetch_comprehensive_data(video) ==
    LET comments_data == fetch_enhanced_comments(video.items)
    IN  [title |-> video.title,
         description |-> video.description,
         viewCount |-> video.viewCount,
         comments |-> comments_data.comments,
         comment_sentiment |-> comments_data.sentiment_analysis,
         transcript |-> video.transcript,
         channel_info |-> video.channel_info,
         thumbnail_analysis |-> video.thumbnail_analysis]

\* ------------------------------------------------------------------------
\* Inputs: the videos the provider can deliver
\* ------------------------------------------------------------------------
\* get_video_transcript when no caption track is found
NoTranscript == [available |-> FALSE, text |-> ""]

\* fetch_channel_info when the request fails
NoChannel == [subscriber_count |-> 0, description |-> ""]

\* analyze_thumbnail when the image cannot be loaded
NoThumbnail == [available |-> FALSE, brightness |-> 128,
                color_profile |-> [warm_tones |-> FALSE]]

WarmThumbnail == [available |-> TRUE, brightness |-> 150,
                  color_profile |-> [warm_tones |-> TRUE]]

Letters == <<"q", "x", "z", "j", "k", "v">>

\* the i-th of 36 distinct comments that hold no keyword and no timestamp
FillerText(i) == Letters[(((i - 1) \div 6) % 6) + 1] \o Letters[((i - 1) % 6) + 1]

Fillers(n) == [i \in 1..n |-> [text |-> FillerText(i), like_count |-> 0]]

Item(text, like_count) == [text |-> text, like_count |-> like_count]

Videos ==
    << \* 1: nothing but a title
       [title |-> "My Video", description |-> "", viewCount |-> 0, items |-> <<>>,
        transcript |-> NoTranscript, channel_info |-> NoChannel,
        thumbnail_analysis |-> NoThumbnail],
       \* 2: one comment with a timestamp and a reunion
       [title |-> "Soldier Homecoming", description |-> "", viewCount |-> 1000,
        items |-> <<Item("the reunion at 2:15 made me cry, so touching", 3)>>,
        transcript |-> NoTranscript, channel_info |-> NoChannel,
        thumbnail_analysis |-> NoThumbnail],
       \* 3: strong heartwarming evidence from every source
       [title |-> "homecoming military wedding rescue saved", description |-> "",
        viewCount |-> 1000,
        items |-> <<Item("spontaneous candid natural reunion crying tears beautiful emotional touching moving at 2:15 3:10 4:05", 100)>>,
        transcript |-> [available |-> TRUE,
                        text |-> "Speechless overwhelmed grateful blessed mom family"],
        channel_info |-> NoChannel, thumbnail_analysis |-> WarmThumbnail],
       \* 4: comments with equal and with different relevance
       [title |-> "Reunion", description |-> "", viewCount |-> 1000,
        items |-> <<Item("moment 0:07", 0),
                    Item("reunion 2:15 and 2:45", 0),
                    Item("reunion 2:15 and 2:45 wow", 0),
                    Item("crying at 1:02:15 best part", 20),
                    Item("so motivated at 3:33 finally", 0)>>,
        transcript |-> NoTranscript, channel_info |-> NoChannel,
        thumbnail_analysis |-> NoThumbnail],
       \* 5: sensational coverage of a disaster, one timestamped comment
       [title |-> "Shocking earthquake flood crash death crisis", description |-> "",
        viewCount |-> 1000, items |-> <<Item("crash at 2:15 prayers", 0)>>,
        transcript |-> NoTranscript,
        channel_info |-> [subscriber_count |-> 200000, description |-> "Local News"],
        thumbnail_analysis |-> NoThumbnail],
       \* 6: responsible coverage, ten comments without timestamps
       [title |-> "earthquake documentary",
        description |-> "awareness education prevention learn", viewCount |-> 1000,
        items |-> Fillers(10),
        transcript |-> [available |-> TRUE, text |-> "it is important to know"],
        channel_info |-> [subscriber_count |-> 200000, description |-> "Official media"],
        thumbnail_analysis |-> NoThumbnail],
       \* 7: a documented transformation, thirty-one comments
       [title |-> "my transformation journey",
        description |-> "after struggling i finally overcame it, years of work",
        viewCount |-> 1000,
        items |-> Fillers(30) \o <<Item("so inspired at 3:33 motivated", 0)>>,
        transcript |-> [available |-> TRUE, text |-> "how to: step one, the key is advice"],
        channel_info |-> NoChannel, thumbnail_analysis |-> NoThumbnail],
       \* 8: a get-rich-quick title
       [title |-> "easy money secret hack", description |-> "", viewCount |-> 0,
        items |-> Fillers(30),
        transcript |-> NoTranscript, channel_info |-> NoChannel,
        thumbnail_analysis |-> NoThumbnail],
       \* 9: twenty-one comments, one of them a genuine signal
       [title |-> "Puppy", description |-> "", viewCount |-> 0,
        items |-> Fillers(20) \o <<Item("so spontaneous", 0)>>,
        transcript |-> NoTranscript, channel_info |-> NoChannel,
        thumbnail_analysis |-> NoThumbnail],
       \* 10: twenty comments, the second page repeating three of the first, one
       \* of the repeats with likes
       [title |-> "Kitten", description |-> "", viewCount |-> 0,
        items |-> Fillers(20) \o <<Item(FillerText(1), 50), Item(FillerText(2), 0),
                                   Item(FillerText(3), 0)>>,
        transcript |-> NoTranscript, channel_info |-> NoChannel,
        thumbnail_analysis |-> NoThumbnail],
       \* 11: staged warnings next to two moments of high relevance
       [title |-> "Reunion prank", description |-> "", viewCount |-> 1000,
        items |-> <<Item("fake scripted reunion crying tears at 2:15 3:10", 0)>>,
        transcript |-> NoTranscript, channel_info |-> NoChannel,
        thumbnail_analysis |-> NoThumbnail],
       \* 12: a sensational title over a description that offers help
       [title |-> "Shocking flood", description |-> "help and support resources",
        viewCount |-> 1000, items |-> <<Item("stay safe", 0)>>,
        transcript |-> NoTranscript, channel_info |-> NoChannel,
        thumbnail_analysis |-> NoThumbnail],
       \* 13: a sensational title and no description
       [title |-> "SHOCKING viral crash", description |-> "", viewCount |-> 1000,
        items |-> <<Item("what happened", 0)>>,
        transcript |-> NoTranscript, channel_info |-> NoChannel,
        thumbnail_analysis |-> NoThumbnail],
       \* 14: comments of mixed sentiment
       [title |-> "Family reunion", description |-> "", viewCount |-> 1000,
        items |-> <<Item("AMAZING reunion at 1:15 but bad boring", 0),
                    Item("love love love the reunion at 2:20 bad boring meh", 0),
                    Item("not good, Great reunion at 3:30", 0)>>,
        transcript |-> NoTranscript, channel_info |-> NoChannel,
        thumbnail_analysis |-> NoThumbnail],
       \* 15: two comments that end and begin with the words of a phrase
       [title |-> "Grandma", description |-> "", viewCount |-> 1000,
        items |-> <<Item("what a surprise", 0), Item("visit us again soon", 0)>>,
        transcript |-> NoTranscript, channel_info |-> NoChannel,
        thumbnail_analysis |-> NoThumbnail],
       \* 16: three genuine achievement markers and a struggle that ends well
       [title |-> "My story",
        description |-> "hard years of work, after struggling i finally achieved success",
        viewCount |-> 1000, items |-> <<Item("respect", 0)>>,
        transcript |-> NoTranscript, channel_info |-> NoChannel,
        thumbnail_analysis |-> NoThumbnail] >>

\* comment items that may arrive later
LaterItems == <<Item("so fake", 0), Item("crying at 0:30 beautiful reunion", 50)>>

\* the transcript once a caption track exists
LaterTranscript == [available |-> TRUE, text |-> "Thank you, I am grateful. Advice: learn"]

CategoryKeys == {"heartwarming_content", "motivational_content", "traumatic_events",
                 "unknown_category"}

\* the keys the three category buttons of the page write to
\* st.session_state.selected_category
SelectableKeys == {"heartwarming_content", "motivational_content", "traumatic_events"}

\* number of additions of evidence to one record
MaxExtra == 2

\* ------------------------------------------------------------------------
\* State: the record, the category and the outcome of the last call of
\* comprehensive_category_analysis (for the page: video_data,
\* selected_category and analysis_result of the last run that reached line
\* 562), before any call the record the caller holds; the number of
\* additions of evidence since the record was first fetched; and of the
\* page: st.session_state.selected_category, the history kept in
\* st.session_state, the buttons the last run of the script created below
\* the analyze button (Save Analysis, Clear History), what awaits a run of
\* the script (a clicked button, or the st.rerun() of the Clear History
\* branch), and the position of the run in progress: none ("idle"), or an
\* analyze run waiting in time.sleep(0.8) at line 569 ("sleep")
\* ------------------------------------------------------------------------
VARIABLES data, category_key, result, extra, selected_category,
          analysis_history, shown, clicked, pc

vars == <<data, category_key, result, extra, selected_category,
          analysis_history, shown, clicked, pc>>

\* what a caller that imported the module and displays no page leaves alone
page == <<selected_category, analysis_history, shown, clicked, pc>>

\* no call has been made yet
NotCalled == [raised |-> FALSE]

\* the records fetch_comprehensive_data returns for the videos
Fetched == {fetch_comprehensive_data(Videos[v]) : v \in 1..Len(Videos)}

Init ==
    /\ data \in Fetched
    /\ category_key = "heartwarming_content"
    /\ result = NotCalled
    /\ extra = 0
    /\ selected_category = "heartwarming_content"
    /\ analysis_history = <<>>
    /\ shown = {}
    /\ clicked = "none"
    /\ pc = "idle"

\* ------------------------------------------------------------------------
\* A caller that imported the module: it calls
\* comprehensive_category_analysis on the record it holds, and again when
\* the record has gained evidence
\* ------------------------------------------------------------------------
Call(key) ==
    /\ category_key' = key
    /\ result' = comprehensive_category_analysis(data, key)
    /\ UNCHANGED <<data, extra, page>>

\* the same video with one more comment, scored again
AppendComment(item) ==
    /\ result # NotCalled
    /\ extra < MaxExtra
    /\ \A i \in 1..Len(data.comments) : data.comments[i] # item.text
    /\ LET acc == IngestItem([comments |-> data.comments,
                              sentiment_analysis |-> data.comment_sentiment], item)
       IN  data' = [data EXCEPT !.comments = acc.comments,
                                !.comment_sentiment = acc.sentiment_analysis]
    /\ result' = comprehensive_category_analysis(data', category_key)
    /\ extra' = extra + 1
    /\ UNCHANGED <<category_key, page>>

\* the same video once its transcript is available, scored again
TranscriptAvailable ==
    /\ result # NotCalled
    /\ extra < MaxExtra
    /\ ~data.transcript.available
    /\ data' = [data EXCEPT !.transcript = LaterTranscript]
    /\ result' = comprehensive_category_analysis(data', category_key)
    /\ extra' = extra + 1
    /\ UNCHANGED <<category_key, page>>

\* the same video with a higher view count, scored again
MoreViews ==
    /\ result # NotCalled
    /\ extra < MaxExtra
    /\ data.viewCount < 2000
    /\ data' = [data EXCEPT !.viewCount = data.viewCount + 1000]
    /\ result' = comprehensive_category_analysis(data', category_key)
    /\ extra' = extra + 1
    /\ UNCHANGED <<category_key, page>>

CallSome == \E key \in CategoryKeys : Call(key)

AppendSome == \E i \in 1..Len(LaterItems) : AppendComment(LaterItems[i])

Next == CallSome \/ AppendSome \/ TranscriptAvailable \/ MoreViews

Spec == Init /\ [][Next]_vars

\* ------------------------------------------------------------------------
\* The page: runs of main
\* ------------------------------------------------------------------------
\* analysis_summary of the Save Analysis branch, without its time stamp
Summary(video_data, category, analysis_result) ==
    [title |-> video_data.title,
     category |-> category,
     score |-> analysis_result.final_score,
     confidence |-> analysis_result.confidence,
     authenticity |-> analysis_result.authenticity_assessment,
     moments_found |-> Len(analysis_result.timestamped_moments),
     transcript_available |-> video_data.transcript.available]

\* One run of the script for the button that triggered it, from the display
\* of the results on; a button is True only in that run.  The Save Analysis
\* button is created inside the analyze_button branch, after the analysis
\* has returned; the Clear History button is created when the history is not
\* empty, and its branch empties the history and asks for another run with
\* st.rerun().
main(button, history, video_data, category, analysis_result) ==
    LET analyze_button == button = "analyze"
        displayed == analyze_button /\ "final_score" \in DOMAIN analysis_result
        save_button == displayed /\ button = "save"
        saved == IF save_button
                 THEN Append(history, Summary(video_data, category, analysis_result))
                 ELSE history
        clear_button == saved # <<>> /\ button = "clear"
    IN  [analysis_history |-> IF clear_button THEN <<>> ELSE saved,
         shown |-> (IF displayed THEN {"save"} ELSE {})
                   \cup (IF saved # <<>> THEN {"clear"} ELSE {}),
         rerun |-> clear_button]

\* the page waits for a widget event: no run is in progress and none pending
Idle == pc = "idle" /\ clicked = "none"

\* A click on Analyze Content with the URL of a video in the text input: the
\* run fetches the record (line 556), makes the analysis for the selected
\* category (line 562) and shows its progress up to time.sleep(0.8) (line
\* 569), where it waits with none of the buttons below created yet.  An
\* analysis that raises reaches no sleep: the except branch reports it and
\* the run goes on to the history section.
Analyze(video_data) ==
    /\ Idle
    /\ data' = video_data
    /\ extra' = 0
    /\ category_key' = selected_category
    /\ result' = comprehensive_category_analysis(video_data, selected_category)
    /\ pc' = IF "final_score" \in DOMAIN result' THEN "sleep" ELSE "idle"
    /\ shown' = IF "final_score" \in DOMAIN result' THEN {}
                ELSE main("analyze", analysis_history, video_data,
                          selected_category, result').shown
    /\ UNCHANGED <<selected_category, analysis_history, clicked>>

AnalyzeSome == \E video_data \in Fetched : Analyze(video_data)

\* the analyze run after the sleep: the results are displayed, Save Analysis
\* is created (line 788) and, with a history, Clear History (line 888)
Display ==
    /\ pc = "sleep"
    /\ analysis_history'
         = main("analyze", analysis_history, data, category_key, result).analysis_history
    /\ shown' = main("analyze", analysis_history, data, category_key, result).shown
    /\ pc' = "idle"
    /\ UNCHANGED <<data, category_key, result, extra, selected_category, clicked>>

\* a widget event arrives while the analyze run sleeps: the run is stopped at
\* its next st.* call (line 570) and ends with no button created; the run of
\* that event is a step of its own
Interrupt ==
    /\ pc = "sleep"
    /\ pc' = "idle"
    /\ UNCHANGED <<data, category_key, result, extra, selected_category,
                   analysis_history, shown, clicked>>

\* a widget event arrives while the analyze run waits for the provider in
\* fetch_comprehensive_data (line 556): the run is stopped at line 558, before
\* the analysis, and ends with no button created
InterruptFetch ==
    /\ Idle
    /\ shown' = {}
    /\ UNCHANGED <<data, category_key, result, extra, selected_category,
                   analysis_history, clicked, pc>>

\* a click on one of the three category buttons: the run stores the key in
\* st.session_state.selected_category and makes no analysis
SelectCategory(key) ==
    /\ Idle
    /\ selected_category' = key
    /\ analysis_history'
         = main("category", analysis_history, data, key, NotCalled).analysis_history
    /\ shown' = main("category", analysis_history, data, key, NotCalled).shown
    /\ UNCHANGED <<data, category_key, result, extra, clicked, pc>>

SelectSome == \E key \in SelectableKeys : SelectCategory(key)

\* a click on one of the buttons the page shows below the analyze button
Click(button) ==
    /\ Idle
    /\ button \in shown
    /\ clicked' = button
    /\ UNCHANGED <<data, category_key, result, extra, selected_category,
                   analysis_history, shown, pc>>

ClickSome == \E button \in {"save", "clear"} : Click(button)

\* the run of the script that the click, or st.rerun(), triggers:
\* analyze_button is False in it, and no analysis is made
Rerun ==
    /\ clicked # "none"
    /\ analysis_history'
         = main(clicked, analysis_history, data, selected_category,
                NotCalled).analysis_history
    /\ shown' = main(clicked, analysis_history, data, selected_category,
                     NotCalled).shown
    /\ clicked' = IF main(clicked, analysis_history, data, selected_category,
                          NotCalled).rerun
                  THEN "rerun" ELSE "none"
    /\ UNCHANGED <<data, category_key, result, extra, selected_category, pc>>

\* a run of the script without analysis that another widget triggers:
\* Export Report, an edited text input, or Analyze Content with a URL that
\* is invalid or a fetch that fails
OtherRun ==
    /\ Idle
    /\ analysis_history'
         = main("other", analysis_history, data, selected_category,
                NotCalled).analysis_history
    /\ shown' = main("other", analysis_history, data, selected_category,
                     NotCalled).shown
    /\ UNCHANGED <<data, category_key, result, extra, selected_category,
                   clicked, pc>>

PageNext == AnalyzeSome \/ Display \/ Interrupt \/ InterruptFetch \/ SelectSome
            \/ ClickSome \/ Rerun \/ OtherRun

PageSpec == Init /\ [][PageNext]_vars

\* the script is rerun after every click
LiveSpec == PageSpec /\ WF_vars(Rerun)

\* ------------------------------------------------------------------------
\* Properties
\* ------------------------------------------------------------------------
\* comprehensive_category_analysis has been called
Called == result # NotCalled

\* the last call returned a result
Returned == "final_score" \in DOMAIN result

KnownKey == category_key \in DOMAIN SPECIALIZED_CATEGORIES

\* C1: for each of the three categories and every record, the call returns
\* a result and never raises.
C1_Total == (Called /\ KnownKey) => Returned

\* C2: the final score of every returned result lies between 0 and 10.
C2_ScoreRange == Returned => (0 <= result.final_score /\ result.final_score <= P(1000))

\* a result whose score the moment bonus carried to the upper limit
C2_Witness ==
    /\ Returned
    /\ HighQuality(result.timestamped_moments) >= 2
    /\ result.final_score = P(1000)

\* C3: every component score of every returned result lies between 0 and 1.
C3_ComponentRange ==
    Returned => \A k \in DOMAIN result.component_scores :
                    0 <= result.component_scores[k] /\ result.component_scores[k] <= P(100)

\* results with a component at the upper limit and with one at the lower
C3_Witness ==
    /\ Returned
    /\ \E k \in DOMAIN result.component_scores :
          result.component_scores[k] \in {0, P(100)}
    /\ data.comment_sentiment.total > 0

\* the increments of the confidence whose evidence conditions hold
ConfidenceIncrements ==
    LET c == result.component_scores
        n == Len(data.comments)
    IN  IF category_key = "heartwarming_content"
        THEN (IF n > 20 THEN P(25) ELSE 0)
             + (IF data.transcript.available THEN P(20) ELSE 0)
             + (IF Len(result.timestamped_moments) > 0 THEN P(15) ELSE 0)
             + (IF AuthenticityAbove60(c.authenticity) THEN P(10) ELSE 0)
        ELSE IF category_key = "motivational_content"
        THEN (IF n > 30 THEN P(30) ELSE 0)
             + (IF data.transcript.available THEN P(25) ELSE 0)
             + (IF c.achievement_authenticity > P(50) THEN P(15) ELSE 0)
             + (IF Len(result.timestamped_moments) > 0 THEN P(10) ELSE 0)
        ELSE (IF data.channel_info.subscriber_count > 50000 THEN P(20) ELSE 0)
             + (IF c.source_credibility > P(70) THEN P(20) ELSE 0)
             + (IF n > 10 THEN P(15) ELSE 0)
             + (IF c.responsible_handling > P(60) THEN P(5) ELSE 0)

ConfidenceFloor ==
    IF category_key = "heartwarming_content" THEN P(30)
    ELSE IF category_key = "motivational_content" THEN P(20)
    ELSE P(40)

\* C4: the confidence is the floor of the category plus the increments whose
\* conditions hold; that sum is at most 1.0, so the confidence is in [0, 1].
C4_Confidence ==
    Returned => /\ result.confidence = ConfidenceFloor + ConfidenceIncrements
                /\ ConfidenceFloor + ConfidenceIncrements <= P(100)
                /\ 0 <= result.confidence

\* a result with every increment granted
C4_Witness == Returned /\ ConfidenceIncrements > 0 /\ result.confidence = P(100)

\* a step that adds optional evidence to the record
EvidenceStep == AppendSome \/ TranscriptAvailable \/ MoreViews

\* C5: adding optional evidence (a transcript, more comments, more views)
\* never lowers the confidence.
C5_Monotone ==
    [][(EvidenceStep /\ Returned /\ Returned') =>
           result'.confidence >= result.confidence]_vars

\* the moments in discovery order: comment by comment, match by match
DiscoveryOrder == CollectMoments(data.comments, SPECIALIZED_CATEGORIES[category_key])

WithScore(moments, v) == SelectSeq(moments, LAMBDA m : m.relevance_score = v)

\* C6: the moments are in descending order of relevance_score, and moments
\* of equal score are in discovery order.
C6_StableDescending ==
    Returned =>
        LET ms == result.timestamped_moments
        IN  /\ \A i \in 1..(Len(ms) - 1) :
                  ms[i].relevance_score >= ms[i + 1].relevance_score
            /\ \A i \in 1..Len(ms) :
                  WithScore(ms, ms[i].relevance_score)
                  = WithScore(DiscoveryOrder, ms[i].relevance_score)

\* moments of equal score from different comments, in a list the sort reordered
C6_Witness ==
    /\ Returned
    /\ LET ms == result.timestamped_moments
       IN  /\ \E i, j \in 1..Len(ms) :
                 /\ i < j
                 /\ ms[i].relevance_score = ms[j].relevance_score
                 /\ ms[i].comment # ms[j].comment
           /\ ms # DiscoveryOrder

\* C7: a call with an unknown category key fails at entry, in the lookup of
\* the category, and returns no result.
C7_UnknownKeyFailsAtEntry ==
    (Called /\ ~KnownKey) =>
        /\ result.raised
        /\ result.error = "KeyError"
        /\ result.at = "comprehensive_category_analysis"
        /\ ~Returned

\* a call with an unknown key has been made on a record with comments
C7_Witness == Called /\ ~KnownKey /\ result.raised /\ Len(data.comments) > 0

WeightsOf(key) ==
    IF key = "heartwarming_content" THEN heartwarming_weights
    ELSE IF key = "motivational_content" THEN motivational_weights
    ELSE traumatic_weights

\* C9: in each analyzer the weights sum to 1.0 and the weighted keys are
\* exactly the components the analyzer computes.
C9_Weights ==
    /\ \A key \in DOMAIN SPECIALIZED_CATEGORIES :
          SumKeys(WeightsOf(key), DOMAIN WeightsOf(key)) = 100
    /\ Returned => DOMAIN result.component_scores = DOMAIN WeightsOf(category_key)

\* a motivational result
C9_Witness ==
    /\ Returned
    /\ category_key = "motivational_content"
    /\ result.component_scores.transformation_evidence > P(40)

\* the label the thresholds give for the gating component of the category
ExpectedLabel ==
    LET c == result.component_scores
    IN  IF category_key = "heartwarming_content"
        THEN Label(c.authenticity, "authentic", "likely_staged")
        ELSE IF category_key = "motivational_content"
        THEN Label(c.achievement_authenticity, "authentic", "likely_fake")
        ELSE Label(c.responsible_handling, "responsible", "exploitative")

\* C10: the authenticity_assessment of the result is the label the
\* thresholds 0.7 and 0.4 give for the gating component, in all categories.
C10_Label == Returned => result.authenticity_assessment = ExpectedLabel

\* ------------------------------------------------------------------------
\* Aggregation, observed on a returned result
\* ------------------------------------------------------------------------
\* the component whose low value triggers the penalty
GatingValue ==
    LET c == result.component_scores
    IN  IF category_key = "heartwarming_content" THEN c.authenticity
        ELSE IF category_key = "motivational_content" THEN c.achievement_authenticity
        ELSE c.responsible_handling

GatingThreshold ==
    IF category_key = "heartwarming_content" THEN P(40)
    ELSE IF category_key = "motivational_content" THEN P(30)
    ELSE P(50)

GatingBelow == GatingValue < GatingThreshold

BaseScore ==
    IF category_key = "heartwarming_content" THEN P(300)
    ELSE IF category_key = "motivational_content" THEN P(200)
    ELSE P(100)

ScaleFactor ==
    IF category_key = "heartwarming_content" THEN 7
    ELSE IF category_key = "motivational_content" THEN 8
    ELSE 9

\* base + scale * weighted sum of the components of the result
Unpenalised ==
    BaseScore + component_contribution(result.component_scores,
                                       WeightsOf(category_key), ScaleFactor)

\* the condition under which the analyzer of the category adds its bonus
BonusGranted ==
    LET c == result.component_scores
    IN  IF category_key = "heartwarming_content"
        THEN HighQuality(result.timestamped_moments) >= 2
        ELSE IF category_key = "motivational_content"
        THEN c.achievement_authenticity > P(80) /\ c.struggle_to_success > P(70)
        ELSE c.educational_value > P(70) /\ c.responsible_handling > P(70)

BonusOfCategory ==
    IF category_key = "heartwarming_content" THEN P(80)
    ELSE IF category_key = "motivational_content" THEN P(100)
    ELSE P(50)

BonusAmount == IF BonusGranted THEN BonusOfCategory ELSE 0

\* the penalty factors of the analyzers, in tenths
PenaltyTenths ==
    IF category_key = "heartwarming_content" THEN 7
    ELSE IF category_key = "motivational_content" THEN 6
    ELSE 5

\* the penalty factors 0.6, 0.5 and 0.4, in tenths
PenaltyTenthsClaimed ==
    IF category_key = "heartwarming_content" THEN 6
    ELSE IF category_key = "motivational_content" THEN 5
    ELSE 4

\* the weighted score after the gating penalty with the given factor
Gated(tenths) == IF GatingBelow THEN (Unpenalised * tenths) \div 10 ELSE Unpenalised

\* C11 as stated: the weighted score is multiplied by 0.6 (heartwarming),
\* 0.4 (traumatic) or 0.5 (motivational) exactly when the gating component
\* is below its threshold.
C11_PenaltyAsClaimed ==
    Returned => result.final_score = ClampScore(Gated(PenaltyTenthsClaimed) + BonusAmount)

\* C11 amended: the weighted score is multiplied by 0.7 (heartwarming),
\* 0.5 (traumatic) or 0.6 (motivational) exactly when the gating component
\* is below its threshold, and is left alone at or above the threshold.
C11_Penalty ==
    Returned => result.final_score = ClampScore(Gated(PenaltyTenths) + BonusAmount)

\* a result whose score the penalty lowered
C11_Witness ==
    /\ Returned
    /\ GatingBelow
    /\ ~BonusGranted
    /\ result.final_score = (Unpenalised * PenaltyTenths) \div 10
    /\ result.final_score < Unpenalised

\* what the result holds above its gated score; the bonus, unless the clamp
\* has cut the score
ObservedBonus == result.final_score - Gated(PenaltyTenths)

Unclamped == result.final_score < P(1000)

\* C12 as stated: in every category a fixed bonus between 0.8 and 1.0 is
\* added if and only if at least 2 moments have relevance_score >= 5.0.
C12_BonusAsClaimed ==
    (Returned /\ Unclamped) =>
        IF HighQuality(result.timestamped_moments) >= 2
        THEN ObservedBonus >= P(80) /\ ObservedBonus <= P(100)
        ELSE ObservedBonus = 0

\* C12 amended: the score before the clamp receives a fixed bonus if and
\* only if the bonus condition of the category holds: heartwarming 0.8 for at
\* least 2 moments of relevance_score >= 5.0; motivational 1.0 for
\* achievement_authenticity > 0.8 and struggle_to_success > 0.7; traumatic
\* 0.5 for educational_value > 0.7 and responsible_handling > 0.7.
C12_Bonus ==
    (Returned /\ Unclamped) =>
        /\ BonusGranted => ObservedBonus = BonusOfCategory
        /\ ~BonusGranted => ObservedBonus = 0

\* a result that holds a bonus no moment earned
C12_Witness ==
    /\ Returned
    /\ Unclamped
    /\ category_key # "heartwarming_content"
    /\ BonusGranted
    /\ HighQuality(result.timestamped_moments) < 2
    /\ ObservedBonus = BonusOfCategory

\* the moments of the result that come from one comment
MomentsFrom(c) == SelectSeq(result.timestamped_moments, LAMBDA m : m.comment = c)

\* the timestamp matches of a comment
MatchesIn(c) == FindTimestamps(Lower(c))

\* the relevance of a comment for the category of the call
RelevanceOf(c) ==
    calculate_moment_relevance(Lower(c), SPECIALIZED_CATEGORIES[category_key])

\* the comment of Scenario A
ScenarioA == "the reunion at 2:15 made me cry, so touching"

\* one moment per timestamp match of every comment of relevance > 0, none
\* for the other comments
EmissionRule ==
    /\ \A i \in 1..Len(data.comments) :
          LET c == data.comments[i]
              ms == MomentsFrom(c)
          IN  /\ Len(ms) = (IF RelevanceOf(c) > 0 THEN Len(MatchesIn(c)) ELSE 0)
              /\ \A j \in 1..Len(ms) :
                    /\ ms[j].timestamp = MatchesIn(c)[j]
                    /\ ms[j].relevance_score = RelevanceOf(c)
                    /\ ms[j].sentiment = analyze_deep_sentiment(c)
    /\ \A j \in 1..Len(result.timestamped_moments) :
          \E i \in 1..Len(data.comments) :
              result.timestamped_moments[j].comment = data.comments[i]
    /\ (category_key = "heartwarming_content"
         /\ \E i \in 1..Len(data.comments) : data.comments[i] = ScenarioA)
        => \E j \in 1..Len(result.timestamped_moments) :
              LET m == result.timestamped_moments[j]
              IN  /\ m.comment = ScenarioA
                  /\ m.timestamp = "2:15"
                  /\ m.relevance_score > 0
                  /\ \E k \in 1..Len(m.category_indicators.content_types) :
                        m.category_indicators.content_types[k] = "reunions"

\* C14: in each category, a comment yields moments only if it holds a
\* timestamp match and its relevance is > 0, and then exactly one moment per
\* match, all with the relevance and the sentiment of the comment; the
\* comment of Scenario A yields a moment "2:15" of content type reunions.
C14_Emission == (Called /\ KnownKey) => (Returned /\ EmissionRule)

\* a timestamp of the hour form H:MM:SS that starts at position i of s
HourFormAt(s, i) ==
    LET WithSeconds(m) ==
            IF /\ m.found
               /\ ~IsDigit(Ch(s, i - 1))
               /\ Ch(s, m.next) = ":"
               /\ IsDigit(Ch(s, m.next + 1))
               /\ IsDigit(Ch(s, m.next + 2))
               /\ ~IsDigit(Ch(s, m.next + 3))
            THEN [found |-> TRUE, next |-> m.next + 3,
                  text |-> SubSeq(s, i, m.next + 2)]
            ELSE NoMatch
    IN  WithSeconds(CoreAt(s, i))

\* C15: a comment of relevance > 0 whose only timestamp is of the hour form
\* H:MM:SS yields exactly one moment, and the timestamp text of that moment
\* is the whole H:MM:SS.
C15_HourForm ==
    Returned =>
        \A i \in 1..Len(data.comments) :
            LET c == data.comments[i]
                lc == Lower(c)
            IN  \A p \in 1..Len(lc) :
                    LET h == HourFormAt(lc, p)
                    IN  (/\ h.found
                         /\ RelevanceOf(c) > 0
                         /\ FindTimestamps(SubSeq(lc, 1, p - 1)) = <<>>
                         /\ FindTimestamps(SubSeq(lc, h.next, Len(lc))) = <<>>)
                        => /\ Len(MomentsFrom(c)) = 1
                           /\ MomentsFrom(c)[1].timestamp = h.text

\* C16: the list of matched emotion words of every moment has at most 3
\* entries, however many viewer-emotion tiers have hits in the comment.
C16_AtMostThreeEmotions ==
    Returned =>
        \A j \in 1..Len(result.timestamped_moments) :
            Len(result.timestamped_moments[j].category_indicators.emotions) <= 3

\* the second signal set of a profile: staged_warnings, or
\* exploitative_warnings in the traumatic profile
WarningSignals(category_data) ==
    IF "staged_warnings" \in DOMAIN category_data.authenticity_signals
    THEN category_data.authenticity_signals.staged_warnings
    ELSE category_data.authenticity_signals.exploitative_warnings

\* genuine first, then questionable, else unknown
ExpectedSignal(c) ==
    LET category_data == SPECIALIZED_CATEGORIES[category_key]
    IN  IF CountIn(category_data.authenticity_signals.genuine, Lower(c)) > 0
        THEN "genuine"
        ELSE IF CountIn(WarningSignals(category_data), Lower(c)) > 0
        THEN "questionable"
        ELSE "unknown"

\* every comment that yields moments yields them with the expected signal
SignalRule ==
    \A i \in 1..Len(data.comments) :
        LET c == data.comments[i]
        IN  (RelevanceOf(c) > 0 /\ MatchesIn(c) # <<>>)
            => /\ Returned
               /\ Len(MomentsFrom(c)) > 0
               /\ \A j \in 1..Len(MomentsFrom(c)) :
                     MomentsFrom(c)[j].category_indicators.authenticity
                     = ExpectedSignal(c)

\* C17: in every category, traumatic_events included, the authenticity
\* signal of a moment is genuine if its comment holds a genuine phrase,
\* else questionable if it holds a staged or exploitative phrase, else
\* unknown.
C17_AuthenticitySignal == (Called /\ KnownKey) => SignalRule

\* Scenario B: a call for traumatic_events on a record whose title holds
\* "shocking" and whose description holds none of awareness, education,
\* prevention
ScenarioB ==
    /\ Called
    /\ category_key = "traumatic_events"
    /\ Contains("shocking", Lower(data.title))
    /\ CountIn(<<"awareness", "education", "prevention">>, Lower(data.description)) = 0

\* responsible_handling is below 0.5 and the score is the penalised one
PenalisedTraumatic ==
    /\ result.component_scores.responsible_handling < P(50)
    /\ result.final_score = (Unpenalised * PenaltyTenths) \div 10

\* C18: for traumatic_events, every input whose title holds "shocking" and
\* whose description holds none of awareness, education and prevention gets
\* a result with responsible_handling < 0.5 and a final score that is the
\* un-penalized score times the traumatic penalty.
C18_ScenarioB == ScenarioB => (Returned /\ PenalisedTraumatic)

\* the record has no comments and no views
NoEngagement == data.comments = <<>> /\ data.viewCount = 0

\* C19: missing optional inputs give fixed defaults and no error: without a
\* transcript speech_analysis and actionable_value are 0.5; without a
\* thumbnail visual_warmth is 0.5; with empty channel information
\* source_credibility is 0.5; without comments and views the call returns
\* and the components that depend on a sentiment or engagement ratio have
\* their base value.
C19_Defaults ==
    /\ (Called /\ KnownKey /\ NoEngagement) => Returned
    /\ Returned =>
          LET c == result.component_scores
          IN  /\ (category_key = "heartwarming_content" /\ ~data.transcript.available)
                 => c.speech_analysis = P(50)
              /\ (category_key = "motivational_content" /\ ~data.transcript.available)
                 => c.actionable_value = P(50)
              /\ (category_key = "heartwarming_content"
                  /\ ~data.thumbnail_analysis.available)
                 => c.visual_warmth = P(50)
              /\ (category_key = "traumatic_events" /\ data.channel_info = NoChannel)
                 => c.source_credibility = P(50)
              /\ (category_key = "heartwarming_content" /\ NoEngagement)
                 => c.emotional_impact = P(30) /\ c.viewer_response = P(30)
              /\ (category_key = "motivational_content" /\ NoEngagement)
                 => c.inspirational_impact = P(30) /\ c.viewer_motivation = P(30)
              /\ (category_key = "traumatic_events" /\ NoEngagement)
                 => c.viewer_impact = P(40)

\* a result for a record without comments, views, transcript, thumbnail and
\* channel information
C19_Witness ==
    /\ Returned
    /\ NoEngagement
    /\ ~data.transcript.available
    /\ ~data.thumbnail_analysis.available
    /\ data.channel_info = NoChannel
    /\ data.comment_sentiment.total = 0

\* the result meets the gating condition and the bonus condition together
PenalisedWithBonus == Returned /\ GatingBelow /\ BonusGranted

\* C20: in every category the final score is the clamped sum of the penalised
\* weighted score and the bonus: penalty and bonus meet only under
\* heartwarming_content, where the penalty is applied first, and no result
\* has a bonus that was multiplied by the penalty factor.
C20_PenaltyBeforeBonus ==
    /\ Returned => result.final_score = ClampScore(Gated(PenaltyTenths) + BonusAmount)
    /\ PenalisedWithBonus =>
          /\ category_key = "heartwarming_content"
          /\ result.final_score
                = ClampScore((Unpenalised * PenaltyTenths) \div 10 + BonusOfCategory)
          /\ result.final_score
                # ClampScore(((Unpenalised + BonusOfCategory) * PenaltyTenths) \div 10)

\* a penalised result that carries the whole bonus
C20_Witness ==
    /\ PenalisedWithBonus
    /\ result.final_score = (Unpenalised * PenaltyTenths) \div 10 + BonusOfCategory
    /\ result.final_score < P(1000)

\* number of keywords of a list that the comment holds, in any letter case
Hits(words, comment) ==
    Cardinality({i \in 1..Len(words) : Contains(words[i], Lower(comment))})

PositiveTotal(comment) == 2 * Hits(very_positive, comment) + Hits(positive_words, comment)

NegativeTotal(comment) == 2 * Hits(very_negative, comment) + Hits(negative_words, comment)

SentimentRule(comment) ==
    IF PositiveTotal(comment) > NegativeTotal(comment) THEN "positive"
    ELSE IF PositiveTotal(comment) < NegativeTotal(comment) THEN "negative"
    ELSE "neutral"

\* number of comments of the record with the given sentiment
Tally(label) ==
    Cardinality({i \in 1..Len(data.comments) : SentimentRule(data.comments[i]) = label})

\* C21: a comment is positive iff twice its strong positive hits plus its
\* ordinary positive hits exceed the same total of negative hits, negative
\* iff the reverse, neutral when the totals are equal; a keyword counts once
\* per comment and in any letter case.  The tallies of the record and the
\* sentiment of every moment follow this rule.
C21_Sentiment ==
    /\ data.comment_sentiment.positive = Tally("positive")
    /\ data.comment_sentiment.negative = Tally("negative")
    /\ data.comment_sentiment.neutral = Tally("neutral")
    /\ Returned =>
          \A j \in 1..Len(result.timestamped_moments) :
              result.timestamped_moments[j].sentiment
                = SentimentRule(result.timestamped_moments[j].comment)

\* a record with a comment in capitals whose totals are equal and not zero,
\* a comment that repeats a keyword, and moments of all three sentiments
C21_Witness ==
    /\ Returned
    /\ \E i \in 1..Len(data.comments) :
          /\ Lower(data.comments[i]) # data.comments[i]
          /\ PositiveTotal(data.comments[i]) = NegativeTotal(data.comments[i])
          /\ PositiveTotal(data.comments[i]) > 0
    /\ \E i \in 1..Len(data.comments) :
          /\ Contains("love love", data.comments[i])
          /\ SentimentRule(data.comments[i]) = "negative"
    /\ \A label \in {"positive", "negative", "neutral"} :
          \E j \in 1..Len(result.timestamped_moments) :
              result.timestamped_moments[j].sentiment = label

\* the weight of the i-th viewer-emotion tier of a profile, strongest first
PositionWeight(i) == IF i = 1 THEN P(300) ELSE IF i = 2 THEN P(200) ELSE P(100)

\* relevance with the tiers of the profile weighted 3.0 / 2.0 / 1.0
RelevanceByPosition(comment, category_data) ==
    LET ct == category_data.content_types
        ve == category_data.viewer_emotions
        typeScore == [i \in 1..Len(ct) |-> Hits(ct[i][2], comment) * P(200)]
        emoScore  == [i \in 1..Len(ve) |-> Hits(ve[i][2], comment) * PositionWeight(i)]
    IN  SumOver(typeScore, Len(ct)) + SumOver(emoScore, Len(ve))
        + Hits(context_words, comment) * P(150)

\* the moments of the result have the relevance of the rule, for the
\* categories of the given set
TierRule(keys) ==
    (Returned /\ category_key \in keys) =>
        \A j \in 1..Len(result.timestamped_moments) :
            result.timestamped_moments[j].relevance_score
              = RelevanceByPosition(result.timestamped_moments[j].comment,
                                    SPECIALIZED_CATEGORIES[category_key])

\* C22: in every category the relevance of a moment is 2.0 per content-type
\* hit, 3.0 / 2.0 / 1.0 per hit in the strongest / middle / mildest
\* viewer-emotion tier of the profile, and 1.5 per context-phrase hit.
C22_TierWeights == TierRule(DOMAIN SPECIALIZED_CATEGORIES)

\* the comments of the record as one text
Corpus == Join(data.comments)

\* genuine signals of the heartwarming profile found in the comments
GenuineHits ==
    Hits(SPECIALIZED_CATEGORIES["heartwarming_content"].authenticity_signals.genuine,
         Corpus)

\* staged warnings of the heartwarming profile found in the comments or the
\* title
StagedHits ==
    LET warnings ==
            SPECIALIZED_CATEGORIES["heartwarming_content"].authenticity_signals.staged_warnings
    IN  Cardinality({i \in 1..Len(warnings) :
                        \/ Contains(warnings[i], Lower(Corpus))
                        \/ Contains(warnings[i], Lower(data.title))})

Clamp01(x) == Max(Min(x, P(100)), 0)

Heartwarming == Returned /\ category_key = "heartwarming_content"

\* C23 as stated: authenticity is 0.5 plus min(0.15 * genuineHits, 0.4)
\* minus min(0.2 * stagedHits, 0.3), clamped to [0, 1], the two terms being
\* independent of each other.
C23_AuthenticityAsClaimed ==
    Heartwarming =>
        result.component_scores.authenticity
          = Clamp01(P(50) + Min(GenuineHits * P(15), P(40)) - Min(StagedHits * P(20), P(30)))

\* C23 amended: the genuine term is added only when genuineHits exceeds
\* stagedHits.
C23_Authenticity ==
    Heartwarming =>
        result.component_scores.authenticity
          = Clamp01(P(50)
                    + (IF GenuineHits > StagedHits THEN Min(GenuineHits * P(15), P(40))
                       ELSE 0)
                    - Min(StagedHits * P(20), P(30)))

\* a result with genuine signals that do not outnumber the staged warnings
C23_Witness ==
    /\ Heartwarming
    /\ GenuineHits >= 1
    /\ GenuineHits <= StagedHits
    /\ result.component_scores.authenticity = P(50) - Min(StagedHits * P(20), P(30))

\* the bonus for the volume of comments
VolumeBonus == IF data.comment_sentiment.total > 20 THEN P(20) ELSE 0

\* the bonus for h moments of relevance 5.0 or more
HighBonus(h) == IF h >= 3 THEN P(50) ELSE IF h >= 1 THEN P(30) ELSE 0

\* C24 as stated: viewer_response is min(1, 0.3 + b + v), b depending only
\* on the number h of moments with relevance 5.0 or more; moments of lower
\* relevance contribute nothing.
C24_ViewerResponseAsClaimed ==
    Heartwarming =>
        result.component_scores.viewer_response
          = Min(P(100), P(30) + HighBonus(HighQuality(result.timestamped_moments))
                        + VolumeBonus)

\* C24 amended: when h = 0, three or more moments add 0.2.
C24_ViewerResponse ==
    Heartwarming =>
        LET h == HighQuality(result.timestamped_moments)
            b == IF h = 0 /\ Len(result.timestamped_moments) >= 3 THEN P(20)
                 ELSE HighBonus(h)
        IN  result.component_scores.viewer_response = Min(P(100), P(30) + b + VolumeBonus)

\* a result with three or more moments, none of relevance 5.0
C24_Witness ==
    /\ Heartwarming
    /\ HighQuality(result.timestamped_moments) = 0
    /\ Len(result.timestamped_moments) >= 3
    /\ result.component_scores.viewer_response = P(50) + VolumeBonus

\* 0.4 * positive / total, when there are comments
PositiveShare ==
    IF data.comment_sentiment.total > 0
    THEN (data.comment_sentiment.positive * P(40)) \div data.comment_sentiment.total
    ELSE 0

\* the bonus for the number of distinct emotion keywords in the comments
KeywordBonus ==
    IF Hits(strong_emotions, Corpus) > 5 THEN P(30)
    ELSE IF Hits(strong_emotions, Corpus) > 2 THEN P(20)
    ELSE 0

\* min(emotional_intensity / 100, 0.3), when there are comments
IntensityTerm ==
    IF data.comment_sentiment.total > 0
    THEN Min(data.comment_sentiment.emotional_intensity \div 100, P(30))
    ELSE 0

\* C25 as stated: emotional_impact is min(1, 0.3 + 0.4 * positive / total
\* + k), k the keyword bonus, and no other term changes the value.
C25_EmotionalImpactAsClaimed ==
    Heartwarming =>
        result.component_scores.emotional_impact
          = Min(P(100), P(30) + PositiveShare + KeywordBonus)

\* C25 amended: min(emotional_intensity / 100, 0.3) is added as well when
\* there are comments.
C25_EmotionalImpact ==
    Heartwarming =>
        result.component_scores.emotional_impact
          = Min(P(100), P(30) + PositiveShare + IntensityTerm + KeywordBonus)

\* a result below 1 that the emotional intensity raised
C25_Witness ==
    /\ Heartwarming
    /\ IntensityTerm > 0
    /\ result.component_scores.emotional_impact
         = P(30) + PositiveShare + IntensityTerm + KeywordBonus
    /\ result.component_scores.emotional_impact < P(100)

\* the keywords of a sequence of named groups
GroupKeywords(groups) ==
    UNION {{groups[i][2][n] : n \in 1..Len(groups[i][2])} : i \in 1..Len(groups)}

\* the keywords and phrases of a profile
ProfileKeywords(category_data) ==
    GroupKeywords(category_data.content_types)
    \cup GroupKeywords(category_data.viewer_emotions)
    \cup GroupKeywords(category_data.speech_patterns)
    \cup UNION {{category_data.authenticity_signals[k][n] :
                    n \in 1..Len(category_data.authenticity_signals[k])} :
                k \in DOMAIN category_data.authenticity_signals}

AllKeywords ==
    UNION {ProfileKeywords(SPECIALIZED_CATEGORIES[k]) : k \in DOMAIN SPECIALIZED_CATEGORIES}

\* the keywords found in the joined comments but in no single comment
SpuriousKeywords ==
    {kw \in AllKeywords :
        /\ Contains(kw, Lower(Corpus))
        /\ \A i \in 1..Len(data.comments) : ~Contains(kw, Lower(data.comments[i]))}

\* C26: every keyword or phrase of a profile that the joined lower-case
\* comments of an analysed record hold is held by one of the comments.
C26_JoinCreatesNoMatch == Called => SpuriousKeywords = {}

\* what the analyzer of the category returns for the record and the moments
\* of the result
AnalysisOf ==
    DispatchAnalysis(BuildAllText(data), data, result.timestamped_moments,
                     SPECIALIZED_CATEGORIES[category_key], category_key)

\* the label the analyzer computes from its gating component
GatingLabel ==
    IF category_key = "traumatic_events" THEN AnalysisOf.handling_assessment
    ELSE AnalysisOf.authenticity

WorstLabel ==
    IF category_key = "heartwarming_content" THEN "likely_staged"
    ELSE IF category_key = "motivational_content" THEN "likely_fake"
    ELSE "exploitative"

\* C27: whenever the penalty is applied, the label the analyzer computes
\* from the gating component is the worst of its category; responsible
\* handling is 0.1, 0.5 or 0.8; and the heartwarming penalty applies exactly
\* when there is a staged warning and the genuine signals do not outnumber
\* the staged warnings.
C27_PenaltyMeansWorstLabel ==
    Returned =>
        /\ GatingBelow => GatingLabel = WorstLabel
        /\ category_key = "traumatic_events"
              => result.component_scores.responsible_handling \in {P(10), P(50), P(80)}
        /\ category_key = "heartwarming_content"
              => (GatingBelow <=> (StagedHits >= 1 /\ GenuineHits <= StagedHits))

\* a penalised traumatic result whose analyzer label is 'exploitative'
C27_Witness ==
    /\ Returned
    /\ category_key = "traumatic_events"
    /\ GatingBelow
    /\ result.component_scores.responsible_handling = P(10)
    /\ AnalysisOf.handling_assessment = "exploitative"
    /\ result.final_score < Unpenalised

Motivational == Returned /\ category_key = "motivational_content"

\* C28: achievement_authenticity never exceeds 0.8, so the motivational
\* bonus condition is never met and the motivational final score never
\* exceeds base + 8.0 * weighted sum.
C28_NoMotivationalBonus ==
    Motivational =>
        /\ result.component_scores.achievement_authenticity <= P(80)
        /\ ~BonusGranted
        /\ result.final_score <= P(200) + component_contribution(result.component_scores,
                                                                 motivational_weights, 8)

\* a motivational result that meets the other half of the bonus condition
\* with achievement_authenticity at its maximum
C28_Witness ==
    /\ Motivational
    /\ result.component_scores.achievement_authenticity = P(80)
    /\ result.component_scores.struggle_to_success > P(70)
    /\ Hits(genuine_markers, data.description) >= 3
    /\ result.final_score = Unpenalised

\* the video the record was fetched for
SourceVideo == CHOOSE v \in 1..Len(Videos) : Videos[v].title = data.title

\* the items whose text no earlier item has
FirstOccurrences(items) ==
    SelectSeq([i \in 1..Len(items) |-> [item |-> items[i], at |-> i]],
              LAMBDA e : \A k \in 1..(e.at - 1) : items[k].text # e.item.text)

\* the record as fetched from the first occurrences alone
FetchedOnce ==
    IngestAll(EmptyComments,
              [i \in 1..Len(FirstOccurrences(Videos[SourceVideo].items)) |->
                  FirstOccurrences(Videos[SourceVideo].items)[i].item])

\* C29: after the items of both retrieval orders have been processed the
\* comments list has no duplicate, total is the length of the list and
\* positive + negative + neutral is total; a text seen a second time
\* changes neither the list nor a tally.
C29_Ingestion ==
    /\ \A i, j \in 1..Len(data.comments) :
          data.comments[i] = data.comments[j] => i = j
    /\ data.comment_sentiment.total = Len(data.comments)
    /\ data.comment_sentiment.positive + data.comment_sentiment.negative
          + data.comment_sentiment.neutral = data.comment_sentiment.total
    /\ data.comment_sentiment.positive <= data.comment_sentiment.total
    /\ extra = 0 =>
          /\ data.comments = FetchedOnce.comments
          /\ data.comment_sentiment = FetchedOnce.sentiment_analysis

\* a record fetched from items that repeat a text
C29_Witness ==
    /\ extra = 0
    /\ Len(data.comments) = 20
    /\ Len(Videos[SourceVideo].items) = 23
    /\ data.comment_sentiment.total = 20

\* the summary of the analysis on display
DisplayedSummary == Summary(data, category_key, result)

\* C30: a click on Save Analysis is followed by a history that ends with
\* the summary of the analysis on display; the history changes only by the
\* append of that one summary after a click on Save Analysis, or by being
\* emptied after a click on Clear History.
C30_SaveAppends ==
    /\ [](clicked = "save"
            => <>(/\ analysis_history # <<>>
                  /\ analysis_history[Len(analysis_history)] = DisplayedSummary))
    /\ [][analysis_history' # analysis_history
            => \/ clicked = "save"
                  /\ analysis_history' = Append(analysis_history, DisplayedSummary)
               \/ clicked = "clear" /\ analysis_history' = <<>>]_vars

====
